---- MODULE Spec2Model ----
(***************************************************************************)
(* Model of the code-execution core of the graphing backend:               *)
(*   CodeExecutor.validate_code, CodeExecutor.execute_code,                *)
(*   CodeExecutor.convert_to_graph_schema  (services/code_executor.py)     *)
(*   AIService.execute_generated_code      (services/ai_service.py)        *)
(*                                                                         *)
(* Python str values are TLA+ strings; Len, SubSeq and \o act on them      *)
(* character by character.                                                 *)
(***************************************************************************)
EXTENDS Integers, Sequences, FiniteSets, TLC

VARIABLES
    pc,         \* position of the one invocation of execute_generated_code
    code,       \* the submitted source text
    verdict,    \* what validate_code produced for code
    temp_file,  \* the wrapped-source file: "none", "exists", "deleted"
    child,      \* the child process: "none", "running", "exited", "killed"
    spawned,    \* number of child processes spawned by this invocation
    proc,       \* the CompletedProcess of subprocess.run (returncode, stdout, stderr)
    ret,        \* the value execute_code is returning (held across the finally block)
    result,     \* what execute_generated_code handed to its caller
    inv,        \* concurrent invocations of execute_code: position, file, counts
    disk,       \* names of the files in the temporary directory
    Graph,      \* rows of table graphs
    Node,       \* rows of table nodes
    Edge,       \* rows of table edges
    Project,    \* rows of table projects
    reply,      \* the last call of a service or endpoint, with what it returned
    active_connections, \* manager.active_connections: graph_id -> set of connections
    endpoint,   \* position of websocket_endpoint for each connection
    frame,      \* locals of the broadcast_to_graph each endpoint is running
    client,     \* the remote end of each connection: "absent", "open", "gone"
    delivered   \* the messages send_json has handed to a remote end

vars == <<pc, code, verdict, temp_file, child, spawned, proc, ret, result, inv, disk,
          Graph, Node, Edge, Project, reply,
          active_connections, endpoint, frame, client, delivered>>

\* the state of the concurrent invocations
conc == <<inv, disk>>

\* the state of the single invocation
single == <<pc, code, verdict, temp_file, child, spawned, proc, ret, result>>

\* the database
store == <<Graph, Node, Edge, Project, reply>>

\* the WebSocket connection manager and its endpoints
sock == <<active_connections, endpoint, frame, client, delivered>>

None == "None"

(***************************************************************************)
(* Bounds of the model.                                                    *)
(***************************************************************************)
MaxLines == 2       \* source lines of a submission checked by the validator
MaxInvocations == 2 \* concurrent invocations of execute_code

(***************************************************************************)
(* Python str operations.                                                  *)
(***************************************************************************)
CharAt(s, i) == SubSeq(s, i, i)

\* k in s
Contains(s, k) ==
    \E i \in 1..(Len(s) - Len(k) + 1) : SubSeq(s, i, i + Len(k) - 1) = k

StartsWith(s, k) == Len(s) >= Len(k) /\ SubSeq(s, 1, Len(k)) = k

EndsWith(s, k) == Len(s) >= Len(k) /\ SubSeq(s, Len(s) - Len(k) + 1, Len(s)) = k

UpperCase == "ABCDEFGHIJKLMNOPQRSTUVWXYZ"
LowerCase == "abcdefghijklmnopqrstuvwxyz"
Digits    == "0123456789"

IndexIn(alphabet, c) ==
    IF \E i \in 1..Len(alphabet) : CharAt(alphabet, i) = c
    THEN CHOOSE i \in 1..Len(alphabet) : CharAt(alphabet, i) = c
    ELSE 0

CharSet(alphabet) == {CharAt(alphabet, i) : i \in 1..Len(alphabet)}

UpperSet == CharSet(UpperCase)
LowerSet == CharSet(LowerCase)
DigitSet == CharSet(Digits)

LowerMap == [c \in UpperSet |-> CharAt(LowerCase, IndexIn(UpperCase, c))]

LowerChar(c) == IF c \in UpperSet THEN LowerMap[c] ELSE c

\* Lower without the case folding
LowerUnchanged(s) == [i \in 1..Len(s) |-> CharAt(s, i)]

\* s.lower(), as the sequence of its characters
Lower(s) == [i \in 1..Len(s) |-> LowerChar(CharAt(s, i))]

IsSpace(c) == c \in {" ", "\n", "\t", "\r"}

\* the first position at or after i of s that holds no white space, Len(s) + 1
\* when there is none
SkipWs(s, i) ==
    CHOOSE j \in i..(Len(s) + 1) :
        /\ j = Len(s) + 1 \/ ~IsSpace(CharAt(s, j))
        /\ \A k \in i..(j - 1) : IsSpace(CharAt(s, k))

\* the last position of s that holds no white space, 0 when there is none
LastNonSpace(s) ==
    IF \A k \in 1..Len(s) : IsSpace(CharAt(s, k)) THEN 0
    ELSE CHOOSE j \in 1..Len(s) :
             /\ ~IsSpace(CharAt(s, j))
             /\ \A k \in (j + 1)..Len(s) : IsSpace(CharAt(s, k))

\* s.strip()
Strip(s) == SubSeq(s, SkipWs(s, 1), LastNonSpace(s))

\* s.split(sep) for a one-character separator: a sequence of strings
\* the first position at or after i where character c occurs in s, or 0
Find(s, c, i) ==
    IF \A j \in i..Len(s) : CharAt(s, j) # c THEN 0
    ELSE CHOOSE j \in i..Len(s) :
             /\ CharAt(s, j) = c
             /\ \A k \in i..(j - 1) : CharAt(s, k) # c

RECURSIVE Split(_, _)
\* s split at its first separator, which is at position i (0: there is none);
\* the rest is named by a bound variable so that it is computed once
SplitAt(s, sep, i) ==
    IF i = 0 THEN <<s>>
    ELSE <<SubSeq(s, 1, i - 1)>>
             \o (CHOOSE out \in {Split(rest, sep) : rest \in {SubSeq(s, i + 1, Len(s))}} : TRUE)

Split(s, sep) == CHOOSE out \in {SplitAt(s, sep, i) : i \in {Find(s, sep, 1)}} : TRUE

\* the non-empty pieces of a sequence of strings
RECURSIVE NonEmpty(_)
NonEmpty(ss) ==
    IF ss = <<>> THEN <<>>
    ELSE IF Head(ss) = "" THEN NonEmpty(Tail(ss))
    ELSE <<Head(ss)>> \o NonEmpty(Tail(ss))

Range(f) == {f[i] : i \in DOMAIN f}


(***************************************************************************)
(* CodeExecutor static configuration.                                      *)
(***************************************************************************)
ALLOWED_IMPORTS == {"networkx", "nx", "numpy", "np", "math", "random", "json"}

BLOCKED_KEYWORDS ==
    << "import os", "import sys", "import subprocess", "import __builtin__",
       "import builtins", "__import__", "eval(", "exec(", "open(", "file(",
       "input(", "raw_input(" >>

EXECUTION_TIMEOUT == 10

(***************************************************************************)
(* ast.parse, for the fragment of Python the submissions of the model are  *)
(* written in.  A source is a sequence of lines; a line is                 *)
(*     import DOTTED [as NAME] { , DOTTED [as NAME] }                      *)
(*   | from [.]DOTTED import NAME   |   from . import NAME                 *)
(*   | NAME = EXPR   |   EXPR   |   raise EXPR                             *)
(*   | if NAME: <one of the above>                                         *)
(* with tokens separated by blanks and                                     *)
(*     EXPR ::= NAME | NUMBER | STRING | DISPLAY | DOTTED(EXPR?)           *)
(*            | EXPR+EXPR | -EXPR ,                                        *)
(* a DISPLAY being a bracketed list, dict or tuple written without blanks. *)
(* Any other line is a SyntaxError.  The tree has the node types the       *)
(* validator looks at: Module, If, Import, ImportFrom, and Stmt for the    *)
(* rest.                                                                   *)
(***************************************************************************)
PyKeywords == {"import", "from", "as", "if", "else", "def", "return", "in", "is", "raise"}

IsNameChar(c) == c \in LowerSet \/ c \in UpperSet \/ c \in DigitSet \/ c = "_"

IsName(s) ==
    /\ Len(s) > 0
    /\ \A i \in 1..Len(s) : IsNameChar(CharAt(s, i))
    /\ CharAt(s, 1) \notin DigitSet
    /\ s \notin PyKeywords

IsNumber(s) == Len(s) > 0 /\ \A i \in 1..Len(s) : CharAt(s, i) \in DigitSet

IsDotted(s) == \A i \in DOMAIN Split(s, ".") : IsName(Split(s, ".")[i])

IsStringLiteral(s) ==
    /\ Len(s) >= 2
    /\ CharAt(s, 1) \in {"\"", "'"}
    /\ CharAt(s, Len(s)) = CharAt(s, 1)
    /\ \A i \in 2..(Len(s) - 1) : CharAt(s, i) # CharAt(s, 1)

Openers == {"(", "[", "{"}
Closers == {")", "]", "}"}

\* how many of the first k characters of s are in the set cs
CountIn(s, k, cs) == Cardinality({i \in 1..k : CharAt(s, i) \in cs})

\* a list, dict or tuple display: it opens with a bracket that its last
\* character closes, and no bracket closes before it was opened
IsDisplay(s) ==
    /\ Len(s) >= 2
    /\ <<CharAt(s, 1), CharAt(s, Len(s))>> \in {<<"(", ")">>, <<"[", "]">>, <<"{", "}">>}
    /\ \A k \in 1..(Len(s) - 1) : CountIn(s, k, Closers) < CountIn(s, k, Openers)
    /\ CountIn(s, Len(s), Closers) = CountIn(s, Len(s), Openers)

\* the text of a call after its callee and opening parenthesis, without the
\* closing one
CallArgument(s, callee) == SubSeq(s, Len(callee) + 2, Len(s) - 1)

RECURSIVE IsExpr(_)
IsExpr(s) ==
    IF IsStringLiteral(s) \/ IsDisplay(s) THEN TRUE
    ELSE IF Contains(s, "+")
         THEN \A i \in DOMAIN Split(s, "+") : IsExpr(Split(s, "+")[i])
    ELSE IF StartsWith(s, "-") THEN IsExpr(SubSeq(s, 2, Len(s)))
    ELSE IF Contains(s, "(")
         THEN /\ EndsWith(s, ")")
              /\ IsDotted(Split(s, "(")[1])
              /\ \/ CallArgument(s, Split(s, "(")[1]) = ""
                 \/ IsExpr(CallArgument(s, Split(s, "(")[1]))
    ELSE IsName(s) \/ IsNumber(s)

\* the number of prefix operators an expression opens with: the nesting the
\* parser descends before it reaches the operand
PrefixDepth(s) ==
    IF \A i \in 1..Len(s) : CharAt(s, i) = "-" THEN Len(s)
    ELSE (CHOOSE i \in 1..Len(s) :
              CharAt(s, i) # "-" /\ \A k \in 1..(i - 1) : CharAt(s, k) = "-") - 1

\* the depth of the tree the parser builds for an expression: the operands of
\* its chain of binary operators (a left-nested BinOp tree), or its prefix
\* operators and their operand
ChainLength(s) ==
    IF IsStringLiteral(s) \/ IsDisplay(s) THEN 1
    ELSE IF PrefixDepth(s) > 0 THEN PrefixDepth(s) + 1
    ELSE Len(Split(s, "+"))

\* the interpreter's recursion limit during AST construction, scaled to the
\* length of the lines of the model
AstRecursionLimit == 3

\* the nesting at which the parser gives up with MemoryError, scaled likewise
ParserStackLimit == 5

SyntaxErrorNode == [type |-> "SyntaxError", names |-> <<>>, module |-> None, body |-> <<>>, depth |-> 0]

\* the parser ran out of stack in this statement
MemoryErrorNode == [type |-> "MemoryError", names |-> <<>>, module |-> None, body |-> <<>>, depth |-> 0]

StmtNode(d) == [type |-> "Stmt", names |-> <<>>, module |-> None, body |-> <<>>, depth |-> d]

\* a statement made of the one expression e, which ends the line
ExprStmt(e) ==
    IF PrefixDepth(e) > ParserStackLimit THEN MemoryErrorNode
    ELSE IF IsExpr(e) THEN StmtNode(ChainLength(e))
    ELSE SyntaxErrorNode

\* the alias names of   a [as b] , c [as d] , ...   or <<>> when it is malformed
RECURSIVE AliasNames(_)
AliasNames(toks) ==
    IF toks = <<>> \/ ~IsDotted(toks[1]) THEN <<>>
    ELSE IF Len(toks) = 1 THEN <<toks[1]>>
    ELSE IF toks[2] = ","
         THEN IF AliasNames(SubSeq(toks, 3, Len(toks))) = <<>> THEN <<>>
              ELSE <<toks[1]>> \o AliasNames(SubSeq(toks, 3, Len(toks)))
    ELSE IF toks[2] = "as" /\ Len(toks) >= 3 /\ IsName(toks[3])
         THEN IF Len(toks) = 3 THEN <<toks[1]>>
              ELSE IF toks[4] = "," /\ AliasNames(SubSeq(toks, 5, Len(toks))) # <<>>
                   THEN <<toks[1]>> \o AliasNames(SubSeq(toks, 5, Len(toks)))
              ELSE <<>>
    ELSE <<>>

ParseSimple(toks) ==
    IF toks[1] = "import"
    THEN IF AliasNames(Tail(toks)) = <<>> THEN SyntaxErrorNode
         ELSE [type |-> "Import", names |-> AliasNames(Tail(toks)), module |-> None,
               body |-> <<>>, depth |-> 0]
    ELSE IF toks[1] = "from"
    THEN IF Len(toks) = 4 /\ toks[3] = "import" /\ IsName(toks[4])
         THEN LET m == toks[2]
                  rel == StartsWith(m, ".")
                  name == IF rel THEN SubSeq(m, 2, Len(m)) ELSE m
              IN IF rel /\ name = ""
                 THEN [type |-> "ImportFrom", names |-> <<toks[4]>>, module |-> None,
                       body |-> <<>>, depth |-> 0]
                 ELSE IF IsDotted(name)
                 THEN [type |-> "ImportFrom", names |-> <<toks[4]>>, module |-> name,
                       body |-> <<>>, depth |-> 0]
                 ELSE SyntaxErrorNode
         ELSE SyntaxErrorNode
    ELSE IF Len(toks) = 3 /\ toks[2] = "="
    THEN IF IsName(toks[1]) THEN ExprStmt(toks[3]) ELSE SyntaxErrorNode
    ELSE IF Len(toks) = 2 /\ toks[1] = "raise" THEN ExprStmt(toks[2])
    ELSE IF Len(toks) = 1 THEN ExprStmt(toks[1])
    ELSE SyntaxErrorNode

ParseStmt(toks) ==
    IF toks[1] = "if"
    THEN IF /\ Len(toks) >= 3
            /\ EndsWith(toks[2], ":")
            /\ IsName(SubSeq(toks[2], 1, Len(toks[2]) - 1))
            /\ ParseSimple(SubSeq(toks, 3, Len(toks))).type # "SyntaxError"
         THEN [type |-> "If", names |-> <<>>, module |-> None,
               body |-> <<ParseSimple(SubSeq(toks, 3, Len(toks)))>>,
               depth |-> ParseSimple(SubSeq(toks, 3, Len(toks))).depth]
         ELSE SyntaxErrorNode
    ELSE ParseSimple(toks)

\* the statements of the source, one per non-blank line
RECURSIVE ParseLines(_)
ParseLines(lines) ==
    IF lines = <<>> THEN <<>>
    ELSE LET toks == NonEmpty(Split(Head(lines), " "))
         IN IF toks = <<>> THEN ParseLines(Tail(lines))
            ELSE <<ParseStmt(toks)>> \o ParseLines(Tail(lines))

\* the statements are parsed in order, so the first one the parser fails on
\* decides between SyntaxError and MemoryError; the tree is built only after
\* the whole source has parsed, and building it can exceed the recursion limit
ModuleOf(stmts) ==
    IF \E i \in DOMAIN stmts : stmts[i].type \in {"SyntaxError", "MemoryError"}
    THEN IF stmts[CHOOSE i \in DOMAIN stmts :
                      /\ stmts[i].type \in {"SyntaxError", "MemoryError"}
                      /\ \A k \in 1..(i - 1) :
                             stmts[k].type \notin {"SyntaxError", "MemoryError"}].type
               = "SyntaxError"
         THEN [exc |-> "SyntaxError", msg |-> "invalid syntax", tree |-> <<>>]
         ELSE [exc |-> "MemoryError", msg |-> "", tree |-> <<>>]
    ELSE IF \E i \in DOMAIN stmts : stmts[i].depth > AstRecursionLimit
    THEN [exc |-> "RecursionError",
          msg |-> "maximum recursion depth exceeded during ast construction",
          tree |-> <<>>]
    ELSE [exc |-> None, msg |-> "",
          tree |-> <<[type |-> "Module", names |-> <<>>, module |-> None,
                      body |-> stmts, depth |-> 0]>>]

\* ast.parse(code): a Module tree, or the exception it raises
AstParse(source) == ModuleOf(ParseLines(Split(source, "\n")))

\* ast.walk(tree): breadth first, from a queue of nodes still to visit
RECURSIVE AstWalk(_)
AstWalk(todo) ==
    IF todo = <<>> THEN <<>>
    ELSE <<Head(todo)>> \o AstWalk(Tail(todo) \o Head(todo).body)

(***************************************************************************)
(* CodeExecutor.validate_code.  The result is the returned pair            *)
(* (is_valid, error_message), or the exception that escapes.               *)
(***************************************************************************)
Returned(v, m) == [kind |-> "return", is_valid |-> v, error |-> m]
Raised(e)      == [kind |-> "raise", is_valid |-> FALSE, error |-> e]

KeywordsLower == [i \in DOMAIN BLOCKED_KEYWORDS |-> Lower(BLOCKED_KEYWORDS[i])]

\* for keyword in BLOCKED_KEYWORDS: if keyword.lower() in code_lower; the
\* index of the first keyword that hits, or 0
RECURSIVE FirstBlocked(_, _)
FirstBlocked(code_lower, i) ==
    IF i > Len(BLOCKED_KEYWORDS) THEN 0
    ELSE IF Contains(code_lower, KeywordsLower[i]) THEN i
    ELSE FirstBlocked(code_lower, i + 1)

\* the name the import check objects to in one node of the tree, or None
RECURSIVE FirstNotAllowed(_)
FirstNotAllowed(names) ==
    IF names = <<>> THEN None
    ELSE IF Head(names) \notin ALLOWED_IMPORTS THEN Head(names)
    ELSE FirstNotAllowed(Tail(names))

ImportViolation(node) ==
    IF node.type = "Import" THEN FirstNotAllowed(node.names)
    ELSE IF node.type = "ImportFrom"
         THEN IF node.module # None /\ Split(node.module, ".")[1] \notin ALLOWED_IMPORTS
              THEN node.module
              ELSE None
    ELSE None

\* for node in ast.walk(tree): the first node with a violation decides
RECURSIVE CheckImports(_)
CheckImports(nodes) ==
    IF nodes = <<>> THEN Returned(TRUE, None)
    ELSE IF ImportViolation(Head(nodes)) # None
         THEN Returned(FALSE, "Import not allowed: " \o ImportViolation(Head(nodes)))
    ELSE CheckImports(Tail(nodes))

\* validate_code with the syntax check before the keyword scan
validate_code_syntax_first(source) ==
    LET hit    == FirstBlocked(Lower(source), 1)
        parsed == AstParse(source)
    IN IF parsed.exc = "SyntaxError"
       THEN Returned(FALSE, "Syntax error: " \o parsed.msg)
       ELSE IF hit # 0
       THEN Returned(FALSE, "Blocked operation detected: " \o BLOCKED_KEYWORDS[hit])
       ELSE IF parsed.exc # None THEN Raised(parsed.exc)
       ELSE CheckImports(AstWalk(parsed.tree))

\* lines 44-72
validate_code(source) ==
    LET hit    == FirstBlocked(Lower(source), 1)
        parsed == AstParse(source)
    IN IF hit # 0
       THEN Returned(FALSE, "Blocked operation detected: " \o BLOCKED_KEYWORDS[hit])
       ELSE IF parsed.exc = "SyntaxError"
            THEN Returned(FALSE, "Syntax error: " \o parsed.msg)
       ELSE IF parsed.exc # None THEN Raised(parsed.exc)
       ELSE CheckImports(AstWalk(parsed.tree))

(***************************************************************************)
(* The submissions the validator is checked on: every text of at most      *)
(* MaxLines lines drawn from SourceLines.                                  *)
(***************************************************************************)
SourceLines ==
    { "import os", "IMPORT OS", "import  os", "import sys as s", "x = __import__",
      "x = \"Eval(\"",
      "import math", "import numpy as np", "import numpy.linalg",
      "import socket", "import math , socket", "import socket.a",
      "from numpy.linalg import x", "from socket.a import b", "from . import x",
      "if x: import socket", "if x: from nx import y",
      "x = 1", "print(\"hi\")", "x = )", "x = 1+1+1+1",
      "x = --1", "x = --", "x = ------", "raise SystemExit(1)",
      "result = {(0,1):2}", "" }

RECURSIVE JoinLines(_)
JoinLines(lines) ==
    IF Len(lines) = 1 THEN lines[1]
    ELSE lines[1] \o "\n" \o JoinLines(Tail(lines))

TextsOf(lineSet, n) ==
    {JoinLines(ls) : ls \in UNION {[1..k -> lineSet] : k \in 1..n}}

Sources == TextsOf(SourceLines, MaxLines)

(***************************************************************************)
(* Python values that travel as JSON.  Every value x is a pair: x[1] is    *)
(* its type and x[2] its content: None/null, bool, int, float (a count of  *)
(* tenths), str, list (a sequence of values) and dict (a sequence of       *)
(* <<key, value>> pairs in insertion order, keys unique).                  *)
(***************************************************************************)
JNull       == <<"null", 0>>
JBool(b)    == <<"bool", b>>
JInt(n)     == <<"int", n>>
JFloat(n)   == <<"float", n>>
JStr(s)     == <<"str", s>>
JList(xs)   == <<"list", xs>>
JDict(kvs)  == <<"dict", kvs>>

\* key in d
HasKey(d, k) == \E i \in DOMAIN d[2] : d[2][i][1] = k

\* d.get(k, default)
DictGet(d, k, default) ==
    IF HasKey(d, k) THEN d[2][CHOOSE i \in DOMAIN d[2] : d[2][i][1] = k][2] ELSE default

\* d[k] = x on the pair sequence of a dict
DictSet(kvs, k, x) ==
    IF \E i \in DOMAIN kvs : kvs[i][1] = k
    THEN [i \in DOMAIN kvs |-> IF kvs[i][1] = k THEN <<k, x>> ELSE kvs[i]]
    ELSE Append(kvs, <<k, x>>)

DigitMap == [c \in DigitSet |-> IndexIn(Digits, c) - 1]

DigitVal(c) == DigitMap[c]
IsDigit(c)  == c \in DigitSet

(***************************************************************************)
(* json.loads: a recursive-descent reading of a JSON text.  Each parser    *)
(* takes the text and a position and yields [ok, val, pos], pos being the  *)
(* position after what it read.  Strings have no escapes and floats are    *)
(* carried to one decimal place.                                           *)
(***************************************************************************)
JFail == [ok |-> FALSE, val |-> JNull, pos |-> 0]
JOk(x, p) == [ok |-> TRUE, val |-> x, pos |-> p]

\* the position after the run of digits starting at i
DigitsEnd(s, i) ==
    CHOOSE j \in i..(Len(s) + 1) :
        /\ j = Len(s) + 1 \/ ~IsDigit(CharAt(s, j))
        /\ \A k \in i..(j - 1) : IsDigit(CharAt(s, k))

RECURSIVE DigitsValue(_)
DigitsValue(ds) ==
    IF Len(ds) = 0 THEN 0
    ELSE 10 * DigitsValue(SubSeq(ds, 1, Len(ds) - 1)) + DigitVal(CharAt(ds, Len(ds)))

ParseJsonString(s, i) ==
    LET j    == Find(s, "\"", i + 1)
        body == SubSeq(s, i + 1, j - 1)
    IN IF j = 0 THEN JFail
       ELSE IF Contains(body, "\n") \/ Contains(body, "\t") \/ Contains(body, "\r")
            THEN JFail
       ELSE JOk(JStr(body), j + 1)

ParseJsonNumber(s, i) ==
    LET neg   == CharAt(s, i) = "-"
        b     == IF neg THEN i + 1 ELSE i
        e     == IF b <= Len(s) /\ CharAt(s, b) = "0" THEN b + 1 ELSE DigitsEnd(s, b)
        whole == DigitsValue(SubSeq(s, b, e - 1))
        frac  == e + 1 <= Len(s) /\ CharAt(s, e) = "." /\ IsDigit(CharAt(s, e + 1))
        sign  == IF neg THEN -1 ELSE 1
    IN IF e = b THEN JFail
       ELSE IF frac
            THEN JOk(JFloat(sign * (10 * whole + DigitVal(CharAt(s, e + 1)))),
                     DigitsEnd(s, e + 1))
       ELSE JOk(JInt(sign * whole), e)

RECURSIVE ParseJsonValue(_, _)
RECURSIVE ParseJsonElements(_, _, _)
RECURSIVE ParseJsonMembers(_, _, _)

\* the value at position i, the first position that holds no white space
ValueAt(s, i, c) ==
    IF i > Len(s) THEN JFail
    ELSE IF c = "{"
         THEN IF SkipWs(s, i + 1) <= Len(s) /\ CharAt(s, SkipWs(s, i + 1)) = "}"
              THEN JOk(JDict(<<>>), SkipWs(s, i + 1) + 1)
              ELSE ParseJsonMembers(s, i + 1, <<>>)
    ELSE IF c = "["
         THEN IF SkipWs(s, i + 1) <= Len(s) /\ CharAt(s, SkipWs(s, i + 1)) = "]"
              THEN JOk(JList(<<>>), SkipWs(s, i + 1) + 1)
              ELSE ParseJsonElements(s, i + 1, <<>>)
    ELSE IF c = "\"" THEN ParseJsonString(s, i)
    ELSE IF StartsWith(SubSeq(s, i, Len(s)), "null") THEN JOk(JNull, i + 4)
    ELSE IF StartsWith(SubSeq(s, i, Len(s)), "true") THEN JOk(JBool(TRUE), i + 4)
    ELSE IF StartsWith(SubSeq(s, i, Len(s)), "false") THEN JOk(JBool(FALSE), i + 5)
    ELSE IF c = "-" \/ IsDigit(c) THEN ParseJsonNumber(s, i)
    ELSE JFail

\* Each intermediate result below is named by a bound variable over a
\* one-element set, so that it is computed once.
ParseJsonValue(s, i0) ==
    CHOOSE out \in {ValueAt(s, i, CharAt(s, i)) : i \in {SkipWs(s, i0)}} : TRUE

\* the elements of a list go on after element r, which ends before position j
ElementsAfter(s, r, j, acc) ==
    IF ~r.ok \/ j > Len(s) THEN JFail
    ELSE IF CharAt(s, j) = "," THEN ParseJsonElements(s, j + 1, acc)
    ELSE IF CharAt(s, j) = "]" THEN JOk(JList(acc), j + 1)
    ELSE JFail

ElementsWith(s, r, acc) ==
    CHOOSE out \in {ElementsAfter(s, r, j, a) :
                        j \in {IF r.ok THEN SkipWs(s, r.pos) ELSE 0},
                        a \in {IF r.ok THEN Append(acc, r.val) ELSE acc}} : TRUE

ParseJsonElements(s, i, acc) ==
    CHOOSE out \in {ElementsWith(s, r, acc) : r \in {ParseJsonValue(s, i)}} : TRUE

\* the members of a dict go on after the member k: r, which ends before j
MembersAfter(s, r, j, acc) ==
    IF ~r.ok \/ j > Len(s) THEN JFail
    ELSE IF CharAt(s, j) = "," THEN ParseJsonMembers(s, j + 1, acc)
    ELSE IF CharAt(s, j) = "}" THEN JOk(JDict(acc), j + 1)
    ELSE JFail

MembersWith(s, k, r, acc) ==
    CHOOSE out \in {MembersAfter(s, r, j, a) :
                        j \in {IF r.ok THEN SkipWs(s, r.pos) ELSE 0},
                        a \in {IF r.ok THEN DictSet(acc, k.val[2], r.val) ELSE acc}} : TRUE

\* the member whose key k ends before position c, where the colon must be
MemberOf(s, k, c, acc) ==
    IF ~k.ok \/ c > Len(s) \/ CharAt(s, c) # ":" THEN JFail
    ELSE CHOOSE out \in {MembersWith(s, k, r, acc) : r \in {ParseJsonValue(s, c + 1)}} : TRUE

MemberKeyed(s, k, acc) ==
    CHOOSE out \in {MemberOf(s, k, c, acc) : c \in {IF k.ok THEN SkipWs(s, k.pos) ELSE 0}} : TRUE

MemberKey(s, i) ==
    IF i <= Len(s) /\ CharAt(s, i) = "\"" THEN ParseJsonString(s, i) ELSE JFail

ParseJsonMembers(s, i0, acc) ==
    CHOOSE out \in {MemberKeyed(s, k, acc) : k \in {MemberKey(s, SkipWs(s, i0))}} : TRUE

\* json.loads(text): one value, then nothing but white space
JsonLoads(text) ==
    CHOOSE out \in {IF r.ok /\ SkipWs(text, r.pos) > Len(text) THEN r ELSE JFail :
                        r \in {ParseJsonValue(text, 1)}} : TRUE

(***************************************************************************)
(* json.dumps, as the last statement of the wrapped program prints it.     *)
(***************************************************************************)
RECURSIVE NatToStr(_)
NatToStr(n) ==
    IF n < 10 THEN CharAt(Digits, n + 1)
    ELSE NatToStr(n \div 10) \o CharAt(Digits, (n % 10) + 1)

IntToStr(n) == IF n < 0 THEN "-" \o NatToStr(-n) ELSE NatToStr(n)

\* repr of a float given in tenths
FloatToStr(n) ==
    LET a == IF n < 0 THEN -n ELSE n
    IN (IF n < 0 THEN "-" ELSE "") \o NatToStr(a \div 10) \o "." \o NatToStr(a % 10)

RECURSIVE JsonDumps(_)
RECURSIVE DumpItems(_)
RECURSIVE DumpPairs(_)

JsonDumps(x) ==
    CASE x[1] = "null"  -> "null"
      [] x[1] = "bool"  -> IF x[2] THEN "true" ELSE "false"
      [] x[1] = "int"   -> IntToStr(x[2])
      [] x[1] = "float" -> FloatToStr(x[2])
      [] x[1] = "str"   -> "\"" \o x[2] \o "\""
      [] x[1] = "list"  -> "[" \o DumpItems(x[2]) \o "]"
      [] x[1] = "tuple" -> "[" \o DumpItems(x[2]) \o "]"
      [] x[1] = "dict"  -> "{" \o DumpPairs(x[2]) \o "}"

DumpItems(xs) ==
    IF xs = <<>> THEN ""
    ELSE IF Len(xs) = 1 THEN JsonDumps(xs[1])
    ELSE JsonDumps(xs[1]) \o ", " \o DumpItems(Tail(xs))

DumpPairs(kvs) ==
    IF kvs = <<>> THEN ""
    ELSE LET one == "\"" \o kvs[1][1] \o "\": " \o JsonDumps(kvs[1][2])
         IN IF Len(kvs) = 1 THEN one ELSE one \o ", " \o DumpPairs(Tail(kvs))

(***************************************************************************)
(* The child process: the wrapped program of lines 104-140 run by the      *)
(* interpreter.  Besides the values above, the user code can hold values   *)
(* that JSON does not have: a tuple, a range (the count it was made from), *)
(* an object with attributes (the pairs of its __dict__) and a dict keyed  *)
(* by tuples (pairs <<key, value>>, the key a tuple value).                *)
(***************************************************************************)
PyTuple(xs)  == <<"tuple", xs>>
PyRange(n)   == <<"range", n>>
PyObject(kvs) == <<"object", kvs>>
PyKeyed(kvs) == <<"keyed", kvs>>

\* json.dumps(x) returns a text: x holds nothing the encoder refuses
RECURSIVE Serializable(_)
Serializable(x) ==
    CASE x[1] \in {"list", "tuple"} -> \A i \in DOMAIN x[2] : Serializable(x[2][i])
      [] x[1] = "dict" -> \A i \in DOMAIN x[2] : Serializable(x[2][i][2])
      [] x[1] \in {"range", "object", "keyed"} -> FALSE
      [] OTHER -> TRUE

\* str(obj) of a value that is neither a scalar, a container nor an object
\* with attributes
PyStr(x) == "range(0, " \o IntToStr(x[2]) \o ")"

\* lines 123-133
RECURSIVE convert_to_dict(_)
convert_to_dict(obj) ==
    CASE obj[1] \in {"int", "float", "str", "bool", "null"} -> obj
      [] obj[1] \in {"list", "tuple"} ->
             JList([i \in DOMAIN obj[2] |-> convert_to_dict(obj[2][i])])
      [] obj[1] = "dict" ->
             JDict([i \in DOMAIN obj[2] |-> <<obj[2][i][1], convert_to_dict(obj[2][i][2])>>])
      [] obj[1] = "keyed" ->
             PyKeyed([i \in DOMAIN obj[2] |-> <<obj[2][i][1], convert_to_dict(obj[2][i][2])>>])
      [] obj[1] = "object" -> convert_to_dict(JDict(obj[2]))
      [] OTHER -> JStr(PyStr(obj))

\* the Python text of a value, written without blanks
RECURSIVE PyRepr(_)
RECURSIVE ReprItems(_)
RECURSIVE ReprPairs(_)

PyRepr(x) ==
    CASE x[1] = "null"   -> "None"
      [] x[1] = "bool"   -> IF x[2] THEN "True" ELSE "False"
      [] x[1] = "int"    -> IntToStr(x[2])
      [] x[1] = "float"  -> FloatToStr(x[2])
      [] x[1] = "str"    -> "\"" \o x[2] \o "\""
      [] x[1] = "list"   -> "[" \o ReprItems(x[2]) \o "]"
      [] x[1] = "tuple"  -> "(" \o ReprItems(x[2]) \o (IF Len(x[2]) = 1 THEN ",)" ELSE ")")
      [] x[1] = "range"  -> "range(" \o IntToStr(x[2]) \o ")"
      [] x[1] = "object" -> "ValueError()"
      [] x[1] = "dict"   -> "{" \o ReprPairs([i \in DOMAIN x[2] |->
                                        <<JStr(x[2][i][1]), x[2][i][2]>>]) \o "}"
      [] x[1] = "keyed"  -> "{" \o ReprPairs(x[2]) \o "}"

ReprItems(xs) ==
    IF xs = <<>> THEN ""
    ELSE IF Len(xs) = 1 THEN PyRepr(xs[1])
    ELSE PyRepr(xs[1]) \o "," \o ReprItems(Tail(xs))

ReprPairs(kvs) ==
    IF kvs = <<>> THEN ""
    ELSE PyRepr(kvs[1][1]) \o ":" \o PyRepr(kvs[1][2])
             \o (IF Len(kvs) = 1 THEN "" ELSE "," \o ReprPairs(Tail(kvs)))

(***************************************************************************)
(* The user code {code} of line 112, as the statements the interpreter     *)
(* runs.  A statement is [op, name, value]:                                *)
(*   import  the line name, an import statement                            *)
(*   assign  name = value                                                  *)
(*   print   print(value)  for a str value                                 *)
(*   dump    print(json.dumps(value))                                      *)
(*   exit    raise SystemExit(value)  for an int value                     *)
(*   raise   raise ValueError("boom")                                      *)
(*   other   the line name, which the interpreter cannot run               *)
(***************************************************************************)
Import(line)    == [op |-> "import", name |-> line, value |-> JNull]
Assign(n, x)    == [op |-> "assign", name |-> n, value |-> x]
PrintText(text) == [op |-> "print", name |-> "", value |-> JStr(text)]
Dump(x)         == [op |-> "dump", name |-> "", value |-> x]
Exit(n)         == [op |-> "exit", name |-> "", value |-> JInt(n)]
RaiseError      == [op |-> "raise", name |-> "", value |-> JNull]
Other(line)     == [op |-> "other", name |-> line, value |-> JNull]

\* the source line of a statement
Unparse(st) ==
    CASE st.op \in {"import", "other"} -> st.name
      [] st.op = "assign" -> st.name \o " = " \o PyRepr(st.value)
      [] st.op = "print"  -> "print(" \o PyRepr(st.value) \o ")"
      [] st.op = "dump"   -> "print(json.dumps(" \o PyRepr(st.value) \o "))"
      [] st.op = "exit"   -> "raise SystemExit(" \o PyRepr(st.value) \o ")"
      [] st.op = "raise"  -> "raise ValueError(\"boom\")"

\* the source text of a program
SourceOf(program) == JoinLines([i \in DOMAIN program |-> Unparse(program[i])])

\* the statement ends the run of the user code: SystemExit, an uncaught
\* exception (json.dumps raises TypeError on what it cannot encode)
Stops(st) ==
    \/ st.op \in {"exit", "raise", "other"}
    \/ st.op = "dump" /\ ~Serializable(st.value)

\* the statements that run to their end, in order
RECURSIVE Executed(_)
Executed(program) ==
    IF program = <<>> \/ Stops(Head(program)) THEN <<>>
    ELSE <<Head(program)>> \o Executed(Tail(program))

\* what the statements wrote to stdout
RECURSIVE Printed(_)
Printed(stmts) ==
    IF stmts = <<>> THEN ""
    ELSE (CASE Head(stmts).op = "print" -> Head(stmts).value[2] \o "\n"
            [] Head(stmts).op = "dump"  -> JsonDumps(Head(stmts).value) \o "\n"
            [] OTHER -> "") \o Printed(Tail(stmts))

\* 'name' in locals() after the statements
IsLocal(stmts, n) == \E i \in DOMAIN stmts : stmts[i].op = "assign" /\ stmts[i].name = n

\* the value of the local: its last assignment
Local(stmts, n) ==
    stmts[CHOOSE i \in DOMAIN stmts :
              /\ stmts[i].op = "assign" /\ stmts[i].name = n
              /\ \A k \in (i + 1)..Len(stmts) :
                     ~(stmts[k].op = "assign" /\ stmts[k].name = n)].value

\* lines 115-120: result after "Ensure result exists"
EnsureResult(stmts) ==
    IF IsLocal(stmts, "result") THEN Local(stmts, "result")
    ELSE IF IsLocal(stmts, "nodes") /\ IsLocal(stmts, "edges")
         THEN JDict(<< <<"nodes", Local(stmts, "nodes")>>, <<"edges", Local(stmts, "edges")>> >>)
    ELSE JDict(<< <<"nodes", JList(<<>>)>>, <<"edges", JList(<<>>)>> >>)

Traceback == "Traceback (most recent call last)"

CompletedProcess(rc, out, err) == [returncode |-> rc, stdout |-> out, stderr |-> err]

\* Epilogue without line 139: nothing is printed after the user code
EpilogueSilent(printed, converted) ==
    IF Serializable(converted)
    THEN CompletedProcess(0, printed, "")
    ELSE CompletedProcess(1, printed, Traceback)

\* lines 135-139 with result converted: print(json.dumps(result)), after what
\* the user code printed
Epilogue(printed, converted) ==
    IF Serializable(converted)
    THEN CompletedProcess(0, printed \o JsonDumps(converted) \o "\n", "")
    ELSE CompletedProcess(1, printed, Traceback)

\* the user code stopped at statement st, having printed the text
StoppedAt(st, printed) ==
    IF st.op = "exit"
    THEN CompletedProcess(st.value[2], printed, "")
    ELSE CompletedProcess(1, printed, Traceback)

\* the child that runs the wrapped program to its end
RunWrapped(program, done) ==
    IF Len(done) < Len(program)
    THEN StoppedAt(program[Len(done) + 1], Printed(done))
    ELSE Epilogue(Printed(done), convert_to_dict(EnsureResult(done)))

(***************************************************************************)
(* The built-in conversions float(), int(), bool() and iteration, on the   *)
(* values above.  A conversion yields [exc, val]; exc is None or the name  *)
(* of the exception raised.  Floats are counted in tenths.                 *)
(***************************************************************************)
Conv(x)    == [exc |-> None, val |-> x]
ConvErr(e) == [exc |-> e, val |-> 0]

\* the number a stripped str denotes: [-]digits[.digit]
NumberOf(s) ==
    LET neg  == Len(s) > 0 /\ CharAt(s, 1) = "-"
        b    == IF neg THEN 2 ELSE 1
        e    == DigitsEnd(s, b)
        sign == IF neg THEN -1 ELSE 1
        isInt   == e > b /\ e = Len(s) + 1
        isFloat == e > b /\ e + 1 = Len(s) /\ CharAt(s, e) = "." /\ IsDigit(CharAt(s, e + 1))
    IN IF isInt THEN [form |-> "int", tenths |-> sign * 10 * DigitsValue(SubSeq(s, b, e - 1))]
       ELSE IF isFloat
            THEN [form |-> "float",
                  tenths |-> sign * (10 * DigitsValue(SubSeq(s, b, e - 1))
                                        + DigitVal(CharAt(s, e + 1)))]
       ELSE [form |-> "none", tenths |-> 0]

\* the number a str denotes for float() / int(), white space around it ignored
StrNumber(s0) == NumberOf(Strip(s0))

\* float(x), in tenths
PyFloat(x) ==
    CASE x[1] = "int"   -> Conv(10 * x[2])
      [] x[1] = "float" -> Conv(x[2])
      [] x[1] = "bool"  -> Conv(IF x[2] THEN 10 ELSE 0)
      [] x[1] = "str"   -> IF StrNumber(x[2]).form # "none" THEN Conv(StrNumber(x[2]).tenths)
                          ELSE ConvErr("ValueError")
      [] OTHER         -> ConvErr("TypeError")

\* truncation toward zero of a count of tenths
Trunc(n) == IF n >= 0 THEN n \div 10 ELSE -((-n) \div 10)

\* int(x)
PyInt(x) ==
    CASE x[1] = "int"   -> Conv(x[2])
      [] x[1] = "float" -> Conv(Trunc(x[2]))
      [] x[1] = "bool"  -> Conv(IF x[2] THEN 1 ELSE 0)
      [] x[1] = "str"   -> IF StrNumber(x[2]).form = "int" THEN Conv(Trunc(StrNumber(x[2]).tenths))
                          ELSE ConvErr("ValueError")
      [] OTHER         -> ConvErr("TypeError")

\* bool(x)
PyBool(x) ==
    CASE x[1] = "null"  -> FALSE
      [] x[1] = "bool"  -> x[2]
      [] x[1] = "int"   -> x[2] # 0
      [] x[1] = "float" -> x[2] # 0
      [] x[1] = "str"   -> x[2] # ""
      [] OTHER         -> x[2] # <<>>

\* the elements a for loop over x visits
PyIter(x) ==
    CASE x[1] = "list" -> Conv(x[2])
      [] x[1] = "dict" -> Conv([i \in DOMAIN x[2] |-> JStr(x[2][i][1])])
      [] x[1] = "str"  -> Conv([i \in 1..Len(x[2]) |-> JStr(CharAt(x[2], i))])
      [] OTHER        -> ConvErr("TypeError")

IsListOrTuple(x) == x[1] = "list"

\* the first exception among conversions made in the given order, or None
RECURSIVE FirstExc(_)
FirstExc(cs) ==
    IF cs = <<>> THEN None
    ELSE IF Head(cs).exc # None THEN Head(cs).exc
    ELSE FirstExc(Tail(cs))

(***************************************************************************)
(* CodeExecutor.convert_to_graph_schema.                                   *)
(***************************************************************************)
Missing == <<"missing", 0>>    \* a key the built dict does not have

DefaultNodeColor == JStr("#3498db")
DefaultEdgeColor == JStr("#95a5a6")

NodeLabel(i) == JStr("Node " \o IntToStr(i + 1))

\* the node dict of lines 214-222 / 225-233 from its converted fields; exc is
\* the first exception the conversions raised, in the order they are made
NodeFrom(label, x, y, z, color, size, extra_data) ==
    [exc |-> FirstExc(<<x, y, z, size>>),
     val |-> [label |-> label, x |-> x.val, y |-> y.val, z |-> z.val,
              color |-> color, size |-> size.val, extra_data |-> extra_data]]

\* node_data[k] as a float when node_data is a list or tuple longer than k, else 0.0
Coord(node_data, k) ==
    IF IsListOrTuple(node_data) /\ Len(node_data[2]) > k
    THEN PyFloat(node_data[2][k + 1])
    ELSE Conv(0)

\* the body of the node loop for element node_data at 0-based index i
ConvertNode(i, node_data) ==
    IF node_data[1] = "dict"
    THEN NodeFrom(DictGet(node_data, "label", NodeLabel(i)),
                  PyFloat(DictGet(node_data, "x", JFloat(0))),
                  PyFloat(DictGet(node_data, "y", JFloat(0))),
                  PyFloat(DictGet(node_data, "z", JFloat(0))),
                  DictGet(node_data, "color", DefaultNodeColor),
                  PyFloat(DictGet(node_data, "size", JFloat(10))),
                  DictGet(node_data, "extra_data", JNull))
    ELSE NodeFrom(NodeLabel(i),
                  Coord(node_data, 0), Coord(node_data, 1), Coord(node_data, 2),
                  DefaultNodeColor, Conv(10), Missing)

\* the edge dict of lines 239-246 / 249-256 from its converted fields
EdgeFrom(s, d, w, directed, color, extra_data) ==
    [exc |-> FirstExc(<<s, d, w>>), skip |-> FALSE,
     val |-> [source_id |-> s.val, target_id |-> d.val, weight |-> w.val,
              directed |-> directed, color |-> color, extra_data |-> extra_data]]

\* ConvertEdge taking the continue branch for a map that lacks an index
ConvertEdgeBothGiven(edge_data) ==
    IF edge_data[1] = "dict" /\ HasKey(edge_data, "source_id") /\ HasKey(edge_data, "target_id")
    THEN EdgeFrom(PyInt(DictGet(edge_data, "source_id", JInt(0))),
                  PyInt(DictGet(edge_data, "target_id", JInt(0))),
                  PyFloat(DictGet(edge_data, "weight", JFloat(10))),
                  PyBool(DictGet(edge_data, "directed", JBool(FALSE))),
                  DictGet(edge_data, "color", DefaultEdgeColor),
                  DictGet(edge_data, "extra_data", JNull))
    ELSE IF IsListOrTuple(edge_data) /\ Len(edge_data[2]) >= 2
    THEN EdgeFrom(PyInt(edge_data[2][1]),
                  PyInt(edge_data[2][2]),
                  IF Len(edge_data[2]) > 2 THEN PyFloat(edge_data[2][3]) ELSE Conv(10),
                  FALSE, DefaultEdgeColor, Missing)
    ELSE [exc |-> None, skip |-> TRUE,
          val |-> [source_id |-> 0, target_id |-> 0, weight |-> 0, directed |-> FALSE,
                   color |-> DefaultEdgeColor, extra_data |-> Missing]]

\* the edge dict the edge loop builds for edge_data; skip is the continue branch
ConvertEdge(edge_data) ==
    IF edge_data[1] = "dict"
    THEN EdgeFrom(PyInt(DictGet(edge_data, "source_id", JInt(0))),
                  PyInt(DictGet(edge_data, "target_id", JInt(0))),
                  PyFloat(DictGet(edge_data, "weight", JFloat(10))),
                  PyBool(DictGet(edge_data, "directed", JBool(FALSE))),
                  DictGet(edge_data, "color", DefaultEdgeColor),
                  DictGet(edge_data, "extra_data", JNull))
    ELSE IF IsListOrTuple(edge_data) /\ Len(edge_data[2]) >= 2
    THEN EdgeFrom(PyInt(edge_data[2][1]),
                  PyInt(edge_data[2][2]),
                  IF Len(edge_data[2]) > 2 THEN PyFloat(edge_data[2][3]) ELSE Conv(10),
                  FALSE, DefaultEdgeColor, Missing)
    ELSE [exc |-> None, skip |-> TRUE,
          val |-> [source_id |-> 0, target_id |-> 0, weight |-> 0, directed |-> FALSE,
                   color |-> DefaultEdgeColor, extra_data |-> Missing]]

\* EdgeInRange without the lower bounds
EdgeInRangeUpperOnly(edge, n) == edge.source_id < n /\ edge.target_id < n

\* if 0 <= edge['source_id'] < len(nodes) and 0 <= edge['target_id'] < len(nodes)
EdgeInRange(edge, n) ==
    /\ 0 <= edge.source_id /\ edge.source_id < n
    /\ 0 <= edge.target_id /\ edge.target_id < n

\* EdgeIfKept refusing an edge from a node to itself
EdgeIfKeptNoLoop(e, n) ==
    IF ~e.skip /\ EdgeInRange(e.val, n) /\ e.val.source_id # e.val.target_id
    THEN <<e.val>> ELSE <<>>

\* lines 237-260 for one built edge e: what it adds to the edges list
EdgeIfKept(e, n) == IF ~e.skip /\ EdgeInRange(e.val, n) THEN <<e.val>> ELSE <<>>

\* the edges list after the edge loop has run over the built edges, given
\* len(nodes) = n
RECURSIVE KeptEdges(_, _)
KeptEdges(built, n) ==
    IF built = <<>> THEN <<>>
    ELSE EdgeIfKept(Head(built), n) \o KeptEdges(Tail(built), n)

SchemaRaised(e) == [kind |-> "raise", exc |-> e, name |-> "", nodes |-> <<>>, edges |-> <<>>]

\* lines 212-266 given the elements the two loops build (nodeRes, edgeRes):
\* the schema, or the first exception raised on the way
LoopsDone(nodeRes, edgeIter, edgeRes, graph_name) ==
    IF FirstExc(nodeRes) # None THEN SchemaRaised(FirstExc(nodeRes))
    ELSE IF edgeIter.exc # None THEN SchemaRaised(edgeIter.exc)
    ELSE IF FirstExc(edgeRes) # None THEN SchemaRaised(FirstExc(edgeRes))
    ELSE [kind |-> "return", exc |-> None, name |-> graph_name,
          nodes |-> [i \in DOMAIN nodeRes |-> nodeRes[i].val],
          edges |-> KeptEdges(edgeRes, Len(nodeRes))]

\* the two loops over what iterating the nodes and edges values yields
SchemaOf(nodeIter, edgeIter, graph_name) ==
    IF nodeIter.exc # None THEN SchemaRaised(nodeIter.exc)
    ELSE LoopsDone([i \in DOMAIN nodeIter.val |-> ConvertNode(i - 1, nodeIter.val[i])],
                   edgeIter,
                   IF edgeIter.exc # None THEN <<>>
                   ELSE [i \in DOMAIN edgeIter.val |-> ConvertEdge(edgeIter.val[i])],
                   graph_name)

convert_to_graph_schema(graph_data, graph_name) ==
    SchemaOf(PyIter(DictGet(graph_data, "nodes", JList(<<>>))),
             PyIter(DictGet(graph_data, "edges", JList(<<>>))),
             graph_name)

(***************************************************************************)
(* CodeExecutor.execute_code, after the child has exited: the mapping of   *)
(* the CompletedProcess to the returned triple (success, graph_data,       *)
(* error_message).                                                         *)
(***************************************************************************)
ExecReturn(s, g, e) == [kind |-> "return", success |-> s, graph_data |-> g, error |-> e]
ExecRaise(e)        == [kind |-> "raise", success |-> FALSE, graph_data |-> JNull, error |-> e]
NoReturn            == [kind |-> "none", success |-> FALSE, graph_data |-> JNull, error |-> None]

IsJsonStart(line) == StartsWith(Strip(line), "{") \/ StartsWith(Strip(line), "[")

\* ScanReversed over the lines in their printed order
RECURSIVE ScanForward(_)
ScanForward(lines) ==
    IF lines = <<>> THEN None
    ELSE IF IsJsonStart(lines[1]) THEN Strip(lines[1])
    ELSE ScanForward(Tail(lines))

\* for line in reversed(lines): the first stripped line that starts with { or [
RECURSIVE ScanReversed(_)
ScanReversed(lines) ==
    IF lines = <<>> THEN None
    ELSE IF IsJsonStart(lines[Len(lines)]) THEN Strip(lines[Len(lines)])
    ELSE CHOOSE out \in {ScanReversed(rest) : rest \in {SubSeq(lines, 1, Len(lines) - 1)}} : TRUE

\* the text handed to json.loads for a non-empty stripped output
JsonPayload(output) ==
    CHOOSE text \in {IF json_line # None /\ json_line # "" THEN json_line ELSE output :
                         json_line \in {ScanReversed(Split(output, "\n"))}} : TRUE

\* LoadGraphData with the key check passing when either key is present
LoadGraphDataEitherKey(text) ==
    LET loaded == JsonLoads(text)
    IN IF ~loaded.ok
       THEN ExecReturn(FALSE, JNull, "Failed to parse output as JSON: Expecting value")
       ELSE IF loaded.val[1] # "dict"
            THEN ExecReturn(FALSE, JNull, "Result must be a dictionary")
       ELSE IF ~HasKey(loaded.val, "nodes") /\ ~HasKey(loaded.val, "edges")
            THEN ExecReturn(FALSE, JNull, "Result must contain 'nodes' and 'edges' keys")
       ELSE ExecReturn(TRUE, loaded.val, None)

\* lines 173-190: json.loads of the chosen text and the checks on its shape
LoadGraphData(text) ==
    CHOOSE out \in
        { IF ~loaded.ok
          THEN ExecReturn(FALSE, JNull, "Failed to parse output as JSON: Expecting value")
          ELSE IF loaded.val[1] # "dict"
               THEN ExecReturn(FALSE, JNull, "Result must be a dictionary")
          ELSE IF ~HasKey(loaded.val, "nodes") \/ ~HasKey(loaded.val, "edges")
               THEN ExecReturn(FALSE, JNull, "Result must contain 'nodes' and 'edges' keys")
          ELSE ExecReturn(TRUE, loaded.val, None) : loaded \in {JsonLoads(text)} } : TRUE

\* ParseOutput that takes an empty output for the empty graph
ParseOutputEmptyGraph(stdout) ==
    LET output == Strip(stdout)
    IN IF output = ""
       THEN ExecReturn(TRUE, JDict(<< <<"nodes", JList(<<>>)>>, <<"edges", JList(<<>>)>> >>), None)
       ELSE LoadGraphData(JsonPayload(output))

\* lines 159-190: the try block around the JSON handling
ParseOutput(stdout) ==
    CHOOSE out \in
        { IF output = "" THEN ExecReturn(FALSE, JNull, "No output from code execution")
          ELSE CHOOSE loaded \in {LoadGraphData(text) : text \in {JsonPayload(output)}} : TRUE
          : output \in {Strip(stdout)} } : TRUE

\* MapCompleted without the default message for an empty stderr
MapCompletedNoDefault(p) ==
    IF p.returncode # 0
    THEN ExecReturn(FALSE, JNull, p.stderr)
    ELSE ParseOutput(p.stdout)

\* lines 154-190: what execute_code returns for a child that exited
MapCompleted(p) ==
    IF p.returncode # 0
    THEN ExecReturn(FALSE, JNull, IF p.stderr # "" THEN p.stderr ELSE "Code execution failed")
    ELSE ParseOutput(p.stdout)

TimedOutMessage ==
    "Code execution timed out after " \o IntToStr(EXECUTION_TIMEOUT) \o " seconds"

ExecutionErrorMessage(e) == "Execution error: " \o e

(***************************************************************************)
(* AIService.execute_generated_code, from the triple execute_code returned.*)
(***************************************************************************)
DefaultGraphName == "AI Generated Graph"

GenReturn(s, g, e) == [kind |-> "return", success |-> s, graph |-> g, error |-> e]
GenRaise(e)        == [kind |-> "raise", success |-> FALSE, graph |-> SchemaRaised(e), error |-> e]
NoResult           == [kind |-> "none", success |-> FALSE, graph |-> SchemaRaised(None), error |-> None]

\* lines 143-144: the schema is returned, an exception of the normalizer is not
\* handled
GenFromSchema(graph_schema) ==
    IF graph_schema.kind = "raise" THEN GenRaise(graph_schema.exc)
    ELSE GenReturn(TRUE, graph_schema, None)

execute_generated_code(r, graph_name) ==
    IF ~r.success THEN GenReturn(FALSE, SchemaRaised(None), r.error)
    ELSE GenFromSchema(convert_to_graph_schema(r.graph_data, graph_name))

(***************************************************************************)
(* Inputs of the model.                                                    *)
(***************************************************************************)
MaxNodes  == 2      \* elements of a nodes list handed to the normalizer
MaxEdges  == 2      \* elements of an edges list handed to the normalizer
MaxOutLen == 4      \* characters of a child output enumerated exhaustively

SeqsUpTo(S, n) == UNION {[1..k -> S] : k \in 0..n}

NodeElems ==
    { JDict(<< <<"label", JStr("A")>>, <<"x", JInt(0)>>, <<"y", JInt(0)>>, <<"z", JInt(0)>> >>),
      JDict(<<>>),
      JDict(<< <<"x", JNull>> >>),
      JDict(<< <<"x", JStr("1.5")>>, <<"size", JStr("big")>> >>),
      JList(<< JInt(1), JInt(2), JInt(3) >>),
      JList(<< JStr("a") >>),
      JInt(7),
      JNull }

EdgeElems ==
    { JList(<< JInt(0), JInt(0) >>),
      JList(<< JInt(0), JInt(1) >>),
      JList(<< JInt(1), JInt(0), JFloat(25), JInt(4) >>),
      JList(<< JInt(-1), JInt(0) >>),
      JList(<< JInt(0), JInt(9) >>),
      JList(<< JFloat(-5), JStr("1") >>),
      JList(<< JInt(0) >>),
      JList(<< JStr("a"), JInt(0) >>),
      JDict(<<>>),
      JDict(<< <<"source_id", JInt(1)>>, <<"target_id", JInt(0)>>, <<"directed", JInt(1)>> >>),
      JDict(<< <<"source_id", JInt(9)>>, <<"target_id", JInt(0)>> >>),
      JDict(<< <<"target_id", JNull>> >>),
      JInt(3),
      JNull }

\* values of the nodes / edges key that are not lists
OddValues == { JInt(5), JNull, JStr("ab"), JDict(<< <<"a", JInt(1)>> >>) }

NodesValues == {JList(ns) : ns \in SeqsUpTo(NodeElems, MaxNodes)} \cup OddValues
EdgesValues == {JList(es) : es \in SeqsUpTo(EdgeElems, MaxEdges)} \cup OddValues

\* k nodes given as positions
PlainNodes(k) == JList([i \in 1..k |-> JList(<< JInt(i), JInt(2), JInt(3) >>)])

GraphData(n, e) == JDict(<< <<"nodes", n>>, <<"edges", e>> >>)

\* the parsed payloads execute_code lets through, dicts with both keys: every
\* nodes value without edges, and every edges value over 0..MaxNodes nodes
GraphDatas ==
    {GraphData(n, JList(<<>>)) : n \in NodesValues}
        \cup {GraphData(PlainNodes(k), e) : k \in 0..MaxNodes, e \in EdgesValues}

OutAlphabet == {"{", "}", "[", "x", "1", " ", "\n"}

RECURSIVE Concat(_)
Concat(ss) == IF ss = <<>> THEN "" ELSE Head(ss) \o Concat(Tail(ss))

ShortOutputs == {Concat(cs) : cs \in SeqsUpTo(OutAlphabet, MaxOutLen)}

\* outputs of a child that printed diagnostics around a JSON line
NoiseBefore == {"", "building graph\n", "[debug]\n", "{\n"}
NoiseAfter  == {"\n", "\ndone\n"}
JsonLines ==
    { "{\"nodes\": [[1, 2, 3]], \"edges\": [[0, 0]]}",
      "{\"nodes\": [{\"label\": \"A\", \"x\": 0, \"y\": 0, \"z\": 0}], \"edges\": []}",
      "  {\"nodes\": [], \"edges\": [], \"nodes\": [1.5]}  ",
      "{\"nodes\": 5, \"edges\": []}",
      "{\"nodes\": [{\"x\": null}], \"edges\": [[0, 0]]}",
      "{\"nodes\": []}",
      "{\"edges\": [true, false]}",
      "[1, 2]", "[1, 2,]", "{\"nodes\": [], \"edges\": [}", "{'nodes': []}",
      "-3", "\"text\"", "null" }

LongOutputs == {b \o j \o a : b \in NoiseBefore, j \in JsonLines, a \in NoiseAfter}

Outputs == ShortOutputs \cup LongOutputs

\* the payload of the scenario: one position and one self-loop
ScenarioGraph ==
    JDict(<< <<"nodes", JList(<<JList(<<JInt(1), JInt(2), JInt(3)>>)>>)>>,
             <<"edges", JList(<<JList(<<JInt(0), JInt(0)>>)>>)>> >>)

\* the submission that prints diagnostics and then the payload
ScenarioPrinted == <<PrintText("building"), Dump(ScenarioGraph)>>

\* the submission that prints diagnostics and assigns the payload to result
ScenarioAssigned == <<PrintText("building"), Assign("result", ScenarioGraph)>>

\* the submitted programs
PipelinePrograms ==
    { <<Import("import os"), PrintText("hi")>>,
      <<Other("x = )")>>,
      <<Import("import socket")>>,
      <<Other("x = 1+1+1+1")>>,
      <<Import("import math"), Assign("x", JInt(1))>>,
      <<PrintText("hi")>>,
      ScenarioPrinted,
      ScenarioAssigned,
      <<Assign("x", JInt(1))>>,
      <<Exit(0)>>,
      <<PrintText("hello"), Exit(0)>>,
      <<PrintText("{"), Exit(0)>>,
      <<Dump(JInt(5)), Exit(0)>>,
      <<Exit(1)>>,
      <<RaiseError>>,
      <<Assign("nodes", ScenarioGraph[2][1][2]), Assign("edges", ScenarioGraph[2][2][2])>>,
      <<Assign("nodes", ScenarioGraph[2][1][2])>>,
      <<Assign("result", JInt(5)), Assign("result", ScenarioGraph)>>,
      <<Assign("result", PyKeyed(<< <<PyTuple(<<JInt(0), JInt(1)>>), JInt(2)>> >>))>>,
      <<Assign("result", JDict(<< <<"nodes", PyTuple(<<JList(<<JInt(1), JInt(2), JInt(3)>>)>>)>>,
                                  <<"edges", PyRange(2)>> >>))>>,
      <<Assign("result", PyObject(<<>>))>>,
      <<Assign("result", JNull)>>,
      <<Assign("result", JDict(<< <<"nodes", JList(<<JDict(<< <<"x", JNull>> >>)>>)>>,
                                  <<"edges", JList(<<>>)>> >>))>>,
      <<PrintText("hi"), Dump(PyRange(2))>> }

PipelineSources == {SourceOf(program) : program \in PipelinePrograms}

\* the program whose text the source is
ProgramOf(source) == CHOOSE program \in PipelinePrograms : SourceOf(program) = source

\* the file the child runs holds the wrapped code of the submitted source
ChildOf(program) == RunWrapped(program, Executed(program))

(***************************************************************************)
(* The database: the tables of models/graph.py and models/project.py and   *)
(* the transactions of GraphService and ProjectService. A service call     *)
(* runs without suspending and commits once, so each call is one step.     *)
(***************************************************************************)
MaxGraphs      == 2     \* rows of table graphs
MaxStoredNodes == 2     \* rows of table nodes
MaxStoredEdges == 1     \* rows of table edges
MaxProjects    == 2     \* rows of table projects

\* a column or an Optional[int] field without a value
NULL == -1

\* Column(Integer, primary_key=True): the database gives a new row the key
\* after the greatest of the table, as SQLite numbers rows; a sequence gives
\* keys greater still, which the bounds cut off
LastId(rows) == IF rows = {} THEN 0 ELSE CHOOSE k \in {r.id : r \in rows} :
                                             \A r \in rows : r.id <= k

FreeIds(rows, max) == {k \in {LastId(rows) + 1} : k <= max}

\* the keys n rows flushed one after the other get
NewIds(rows, max, n) ==
    {ids \in {[i \in 1..n |-> LastId(rows) + i]} : LastId(rows) + n <= max}

\* a GraphSchema, by the fields create_graph reads for the structure
NodeSchema(id) == [id |-> id]
EdgeSchema(s, t) == [source_id |-> s, target_id |-> t]
GraphSchema(name, ns, es) == [name |-> name, nodes |-> ns, edges |-> es]

NoSchema == GraphSchema("", <<>>, <<>>)

\* what a call left behind: its name, its argument, what it returned or
\* raised, the graph row it created or deleted, the rows it created (for
\* create_graph the node rows of the schema's nodes, in order) and the schema
\* create_graph was given
Reply(op, arg, r) ==
    [op |-> op, arg |-> arg, ret |-> r, data |-> NoSchema, graph |-> NULL, created |-> <<>>]

NoReply == Reply("none", NULL, "none")

StoreEmpty ==
    Graph = {} /\ Node = {} /\ Edge = {} /\ Project = {} /\ reply = NoReply

\* db.query(Model).filter(Model.id == id).first(), as the set of rows found
ById(rows, id) == {r \in rows : r.id = id}

Greatest(S) == CHOOSE x \in S : \A y \in S : y <= x

\* graph_service.py lines 33-49, node_map.get(k): the row created for the last
\* node of the schema whose id is k, when k is the id of one
NodeMapGet(node_data, ids, k) ==
    IF {i \in DOMAIN node_data : node_data[i].id # NULL /\ node_data[i].id = k} = {}
    THEN NULL
    ELSE ids[Greatest({i \in DOMAIN node_data :
                            node_data[i].id # NULL /\ node_data[i].id = k})]

\* lines 52-67: the edges of the schema whose source and target are both in
\* node_map, with the keys of the rows they map to
MappedEdge(graph_data, ids, e) ==
    EdgeSchema(NodeMapGet(graph_data.nodes, ids, e.source_id),
               NodeMapGet(graph_data.nodes, ids, e.target_id))

RECURSIVE MappedEdges(_, _, _)
MappedEdges(graph_data, ids, es) ==
    IF es = <<>> THEN <<>>
    ELSE (IF MappedEdge(graph_data, ids, Head(es)).source_id # NULL
             /\ MappedEdge(graph_data, ids, Head(es)).target_id # NULL
          THEN <<MappedEdge(graph_data, ids, Head(es))>> ELSE <<>>)
         \o MappedEdges(graph_data, ids, Tail(es))

\* the rows create_graph adds for graph row g, node keys ids, mapped edges es
\* with keys eids
NodeRows(g, ids) == {[id |-> ids[i], graph_id |-> g] : i \in DOMAIN ids}
EdgeRows(g, es, eids) ==
    {[id |-> eids[j], graph_id |-> g,
      source_id |-> es[j].source_id, target_id |-> es[j].target_id] : j \in DOMAIN es}

\* GraphService.create_graph(db, graph_data), called by op
create_graph(graph_data, op) ==
    /\ Cardinality(Graph) < MaxGraphs
    /\ Cardinality(Node) + Len(graph_data.nodes) <= MaxStoredNodes
    /\ \E g \in FreeIds(Graph, MaxGraphs) :
       \E ids \in NewIds(Node, MaxStoredNodes, Len(graph_data.nodes)) :
       \E es \in {MappedEdges(graph_data, ids, graph_data.edges)} :
          /\ Cardinality(Edge) + Len(es) <= MaxStoredEdges
          /\ \E eids \in NewIds(Edge, MaxStoredEdges, Len(es)) :
                Edge' = Edge \cup EdgeRows(g, es, eids)
          /\ Graph' = Graph \cup {[id |-> g, name |-> graph_data.name]}
          /\ Node' = Node \cup NodeRows(g, ids)
          /\ reply' = [op |-> op, arg |-> NULL, ret |-> "graph", data |-> graph_data,
                       graph |-> g, created |-> ids]
    /\ UNCHANGED <<Project, single, conc, sock>>

\* relationship(..., cascade="all, delete-orphan") of Graph.nodes and
\* Graph.edges: the rows db.delete(graph) deletes with graph row g
CascadeNodes(g) == {n \in Node : n.graph_id = g}
CascadeEdges(g) == {e \in Edge : e.graph_id = g}

\* Node.source_edges / Node.target_edges have no delete cascade: at the flush
\* the edges of deleted nodes gone that are not deleted themselves get
\* source_id / target_id set to NULL, which nullable=False refuses
Blanked(gone, deleted) ==
    {e \in Edge \ deleted : e.source_id \in {n.id : n \in gone}
                               \/ e.target_id \in {n.id : n \in gone}}

\* Detached leaving graph_id as it was
LeftPointing(rows, g) == rows

\* Graph.project has no delete cascade either: graph_id of the project of a
\* deleted graph g is set to NULL, which nullable=True accepts
Detached(rows, g) ==
    {IF p.graph_id = g THEN [p EXCEPT !.graph_id = NULL] ELSE p : p \in rows}

\* db.delete(graph); db.commit() for graph row g, with the rows of table
\* projects that stay; the commit fails as a whole
DeleteGraphRow(g, op, arg, staying) ==
    IF Blanked(CascadeNodes(g), CascadeEdges(g)) # {}
    THEN /\ reply' = Reply(op, arg, "IntegrityError")
         /\ UNCHANGED <<Graph, Node, Edge, Project, single, conc, sock>>
    ELSE /\ Graph' = Graph \ ById(Graph, g)
         /\ Node' = Node \ CascadeNodes(g)
         /\ Edge' = Edge \ CascadeEdges(g)
         /\ Project' = Detached(staying, g)
         /\ reply' = [Reply(op, arg, "True") EXCEPT !.graph = g]
         /\ UNCHANGED <<single, conc, sock>>

\* GraphService.delete_graph(db, graph_id)
delete_graph(graph_id) ==
    IF ById(Graph, graph_id) = {}
    THEN /\ reply' = Reply("delete_graph", NULL, "False")
         /\ UNCHANGED <<Graph, Node, Edge, Project, single, conc, sock>>
    ELSE DeleteGraphRow(graph_id, "delete_graph", NULL, Project)

\* GraphService.add_node(db, graph_id, node_data)
add_node(graph_id) ==
    IF ById(Graph, graph_id) = {}
    THEN /\ reply' = Reply("add_node", NULL, "None")
         /\ UNCHANGED <<Graph, Node, Edge, Project, single, conc, sock>>
    ELSE /\ \E id \in FreeIds(Node, MaxStoredNodes) :
              /\ Node' = Node \cup {[id |-> id, graph_id |-> graph_id]}
              /\ reply' = [Reply("add_node", NULL, "node") EXCEPT !.created = <<id>>]
         /\ UNCHANGED <<Graph, Edge, Project, single, conc, sock>>

\* delete_node without the flush of the node's edge collections
delete_node_leaving_edges(node_id) ==
    IF ById(Node, node_id) = {}
    THEN /\ reply' = Reply("delete_node", node_id, "False")
         /\ UNCHANGED <<Graph, Node, Edge, Project, single, conc, sock>>
    ELSE /\ Node' = Node \ ById(Node, node_id)
         /\ reply' = Reply("delete_node", node_id, "True")
         /\ UNCHANGED <<Graph, Edge, Project, single, conc, sock>>

\* GraphService.delete_node(db, node_id)
delete_node(node_id) ==
    IF ById(Node, node_id) = {}
    THEN /\ reply' = Reply("delete_node", node_id, "False")
         /\ UNCHANGED <<Graph, Node, Edge, Project, single, conc, sock>>
    ELSE IF Blanked(ById(Node, node_id), {}) # {}
    THEN /\ reply' = Reply("delete_node", node_id, "IntegrityError")
         /\ UNCHANGED <<Graph, Node, Edge, Project, single, conc, sock>>
    ELSE /\ Node' = Node \ ById(Node, node_id)
         /\ reply' = Reply("delete_node", node_id, "True")
         /\ UNCHANGED <<Graph, Edge, Project, single, conc, sock>>

\* lines 210-217: db.query(Node).filter(Node.id == id, Node.graph_id == graph_id)
InGraph(id, graph_id) == {n \in Node : n.id = id /\ n.graph_id = graph_id}

\* GraphService.add_edge(db, graph_id, edge_data)
add_edge(graph_id, edge_data) ==
    IF \/ ById(Graph, graph_id) = {}
       \/ InGraph(edge_data.source_id, graph_id) = {}
       \/ InGraph(edge_data.target_id, graph_id) = {}
    THEN /\ reply' = Reply("add_edge", NULL, "None")
         /\ UNCHANGED <<Graph, Node, Edge, Project, single, conc, sock>>
    ELSE /\ \E id \in FreeIds(Edge, MaxStoredEdges) :
              /\ Edge' = Edge \cup {[id |-> id, graph_id |-> graph_id,
                                     source_id |-> edge_data.source_id,
                                     target_id |-> edge_data.target_id]}
              /\ reply' = [Reply("add_edge", NULL, "edge") EXCEPT !.created = <<id>>]
         /\ UNCHANGED <<Graph, Node, Project, single, conc, sock>>

\* GraphService.delete_edge(db, edge_id)
delete_edge(edge_id) ==
    IF ById(Edge, edge_id) = {}
    THEN /\ reply' = Reply("delete_edge", NULL, "False")
         /\ UNCHANGED <<Graph, Node, Edge, Project, single, conc, sock>>
    ELSE /\ Edge' = Edge \ ById(Edge, edge_id)
         /\ reply' = Reply("delete_edge", NULL, "True")
         /\ UNCHANGED <<Graph, Node, Project, single, conc, sock>>

\* ProjectService.create_project(db, project_data)
create_project(name) ==
    /\ \E g \in FreeIds(Graph, MaxGraphs), id \in FreeIds(Project, MaxProjects) :
          /\ Graph' = Graph \cup {[id |-> g, name |-> "Graph for " \o name]}
          /\ Project' = Project \cup {[id |-> id, name |-> name, graph_id |-> g]}
          /\ reply' = [Reply("create_project", NULL, "project")
                          EXCEPT !.graph = g, !.created = <<id>>]
    /\ UNCHANGED <<Node, Edge, single, conc, sock>>

\* ProjectService.delete_project(db, project_id)
delete_project(project_id) ==
    IF ById(Project, project_id) = {}
    THEN /\ reply' = Reply("delete_project", project_id, "False")
         /\ UNCHANGED <<Graph, Node, Edge, Project, single, conc, sock>>
    ELSE \E project \in ById(Project, project_id) :
            IF project.graph_id # NULL /\ project.graph_id # 0
               /\ ById(Graph, project.graph_id) # {}
            THEN DeleteGraphRow(project.graph_id, "delete_project", project_id,
                                Project \ {project})
            ELSE /\ Project' = Project \ {project}
                 /\ reply' = Reply("delete_project", project_id, "True")
                 /\ UNCHANGED <<Graph, Node, Edge, single, conc, sock>>

(***************************************************************************)
(* The execute-code endpoint (api/routes/ai.py): the triple of             *)
(* execute_generated_code, the GraphSchema built from it, create_graph.    *)
(***************************************************************************)
\* pydantic's validation of the normalizer's dict: label and color are str,
\* extra_data is a dict or None
IsStrJ(x) == x[1] = "str"
IsOptionalDict(x) == x = Missing \/ x = JNull \/ x[1] = "dict"

Validates(draft) ==
    /\ \A i \in DOMAIN draft.nodes :
          /\ IsStrJ(draft.nodes[i].label) /\ IsStrJ(draft.nodes[i].color)
          /\ IsOptionalDict(draft.nodes[i].extra_data)
    /\ \A j \in DOMAIN draft.edges :
          IsStrJ(draft.edges[j].color) /\ IsOptionalDict(draft.edges[j].extra_data)

\* line 183, the GraphSchema built from graph_data: the normalizer's nodes
\* carry no id
SchemaOfDraft(draft) ==
    GraphSchema(draft.name,
                [i \in DOMAIN draft.nodes |-> NodeSchema(NULL)],
                [j \in DOMAIN draft.edges |->
                    EdgeSchema(draft.edges[j].source_id, draft.edges[j].target_id)])

\* lines 170-194, from the triple gen of execute_generated_code
Respond(gen) ==
    IF gen.kind = "raise" THEN
        /\ reply' = Reply("execute_code", NULL, "HTTPException")
        /\ UNCHANGED <<Graph, Node, Edge, Project, single, conc, sock>>
    ELSE IF ~gen.success THEN
        /\ reply' = Reply("execute_code", NULL, "error")
        /\ UNCHANGED <<Graph, Node, Edge, Project, single, conc, sock>>
    ELSE IF ~Validates(gen.graph) THEN
        /\ reply' = Reply("execute_code", NULL, "HTTPException")
        /\ UNCHANGED <<Graph, Node, Edge, Project, single, conc, sock>>
    ELSE create_graph(SchemaOfDraft(gen.graph), "execute_code")

\* POST /execute-code with a source whose execution returned r
ExecuteCode(r, graph_name) ==
    \E gen \in {execute_generated_code(r, graph_name)} : Respond(gen)

\* the triples execute_code hands over, and the names callers give
Pair(a, b) == JList(<<JInt(a), JInt(b)>>)

EndpointDatas ==
    {GraphData(PlainNodes(k), JList(es)) :
        k \in 0..MaxStoredNodes, es \in {<<>>, <<Pair(0, 1)>>, <<Pair(0, 0)>>}}
    \cup {GraphData(JList(<<JDict(<< <<"label", JInt(5)>> >>)>>), JList(<<>>)),
          GraphData(JList(<<JList(<<JStr("a")>>)>>), JList(<<>>))}

EndpointResults ==
    {ExecReturn(TRUE, data, None) : data \in EndpointDatas}
        \cup {ExecReturn(FALSE, JNull, "Code execution failed")}

GraphNames == {"g", DefaultGraphName}

\* the schemas clients post to /graphs: nodes with ids, without, with one id
\* twice, and an edge to an id no node has
ClientSchemas ==
    {GraphSchema("c", <<NodeSchema(0), NodeSchema(1)>>, <<EdgeSchema(0, 1)>>),
     GraphSchema("c", <<NodeSchema(NULL)>>, <<>>),
     GraphSchema("c", <<NodeSchema(0), NodeSchema(0)>>, <<EdgeSchema(0, 0)>>),
     GraphSchema("c", <<NodeSchema(0)>>, <<EdgeSchema(0, 1)>>)}

GraphKeys == 1..MaxGraphs
NodeKeys == 1..MaxStoredNodes
EdgeKeys == 1..MaxStoredEdges
ProjectKeys == 1..MaxProjects

\* the execute-code endpoint, and the graph routes that delete what it stored
NextEndpoint ==
    \/ \E r \in EndpointResults, graph_name \in GraphNames : ExecuteCode(r, graph_name)
    \/ \E graph_id \in GraphKeys : delete_graph(graph_id)
    \/ \E node_id \in NodeKeys : delete_node(node_id)

\* the graph routes
NextGraphs ==
    \/ \E graph_data \in ClientSchemas : create_graph(graph_data, "create_graph")
    \/ \E graph_id \in GraphKeys : delete_graph(graph_id)
    \/ \E graph_id \in GraphKeys : add_node(graph_id)
    \/ \E node_id \in NodeKeys : delete_node(node_id)
    \/ \E graph_id \in GraphKeys, s, t \in NodeKeys : add_edge(graph_id, EdgeSchema(s, t))
    \/ \E edge_id \in EdgeKeys : delete_edge(edge_id)

\* the project routes, and the graph routes that delete a graph and fill one
NextProjects ==
    \/ create_project("p")
    \/ \E project_id \in ProjectKeys : delete_project(project_id)
    \/ \E graph_id \in GraphKeys : delete_graph(graph_id)
    \/ \E graph_id \in GraphKeys : add_node(graph_id)

(***************************************************************************)
(* The WebSocket connection manager and its endpoint (api/websocket.py).   *)
(* The endpoints are coroutines of one event loop: what runs between two   *)
(* awaits is one step, and at an await the other endpoints may run.        *)
(***************************************************************************)
MaxConnections == 3     \* WebSocket connections opened in a run
MaxGraphIds    == 2     \* graph ids connections are opened for
MaxMessages    == 2     \* messages the endpoints receive from their clients

Connections == 1..MaxConnections
GraphIds == 1..MaxGraphIds

\* line 72: the message types the endpoint broadcasts
BroadcastTypes == {"node_moved", "node_updated", "edge_updated", "graph_updated"}

\* the texts clients send: a message of one of those types, a ping, a type
\* the endpoint does not know, and a text that is not JSON
Texts == {"node_moved", "ping", "zoom", "{"}

\* the sender of the messages send_personal_message sends
Server == 0

NoEndpoint == [pc |-> "none", graph_id |-> 0, received |-> 0, cause |-> "none"]

\* the locals of a broadcast_to_graph: the message, the set iterator (the size
\* of the set when the loop began, the connections it has still to yield,
\* whether the set was changed or dropped from the dict since), the connection
\* being sent to, the set disconnected; and what became of the call, with the
\* connections registered from its start to its end
NoFrame == [type |-> "", used |-> 0, todo |-> {}, touched |-> FALSE, stale |-> FALSE,
            current |-> 0, disconnected |-> {}, stayed |-> {}, outcome |-> "none"]

NobodyConnected ==
    /\ active_connections = <<>>
    /\ endpoint = [c \in Connections |-> NoEndpoint]
    /\ frame = [c \in Connections |-> NoFrame]
    /\ client = [c \in Connections |-> "absent"]
    /\ delivered = {}

\* the messages the endpoints of cs have received
RECURSIVE Received(_)
Received(cs) ==
    IF cs = {} THEN 0
    ELSE LET c == CHOOSE x \in cs : TRUE
         IN  endpoint[c].received + Received(cs \ {c})

\* self.active_connections[graph_id], the empty set when there is no such key
Registered(reg, g) == IF g \in DOMAIN reg THEN reg[g] ELSE {}

\* lines 18-20 of connect
Register(reg, c, g) ==
    [h \in DOMAIN reg \cup {g} |-> IF h = g THEN Registered(reg, g) \cup {c} ELSE reg[h]]

\* lines 24-28 of disconnect, for each connection of cs in turn
Discard(reg, cs, g) ==
    IF g \notin DOMAIN reg THEN reg
    ELSE IF reg[g] \ cs = {} THEN [h \in DOMAIN reg \ {g} |-> reg[h]]
    ELSE [reg EXCEPT ![g] = @ \ cs]

\* what the broadcasts suspended over the set of graph g see of a change of
\* the registry to reg that removed the connections gone: a set dropped from
\* the dict is no longer the one registered
Seen(f, reg, g, gone) ==
    [f EXCEPT !.touched = TRUE,
              !.todo = @ \ gone,
              !.stayed = @ \ gone,
              !.stale = @ \/ g \notin DOMAIN reg]

Suspended(x, g) == frame[x].outcome = "running" /\ endpoint[x].graph_id = g

\* frame after such a change, made by endpoint c, whose own frame is own
Frames(c, own, reg, g, gone) ==
    [x \in Connections |->
        IF x = c THEN own
        ELSE IF Suspended(x, g) THEN Seen(frame[x], reg, g, gone)
        ELSE frame[x]]

\* websocket_endpoint line 60, manager.connect(websocket, graph_id);
\* connections are numbered in the order the server accepts them
Connect(c, g) ==
    /\ endpoint[c].pc = "none"
    /\ \A b \in 1..(c - 1) : endpoint[b].pc # "none"
    /\ endpoint' = [endpoint EXCEPT ![c] = [NoEndpoint EXCEPT !.pc = "receive", !.graph_id = g]]
    /\ client' = [client EXCEPT ![c] = "open"]
    /\ active_connections' = Register(active_connections, c, g)
    /\ frame' = Frames(c, frame[c], active_connections', g, {})
    /\ UNCHANGED <<delivered, single, conc, store>>

\* the remote end of connection c goes away
ClientLeaves(c) ==
    /\ client[c] = "open"
    /\ client' = [client EXCEPT ![c] = "gone"]
    /\ UNCHANGED <<active_connections, endpoint, frame, delivered, single, conc, store>>

\* lines 64, 86-87: receive_text raises WebSocketDisconnect
ReceiveDisconnect(c) ==
    /\ endpoint[c].pc = "receive"
    /\ client[c] = "gone"
    /\ endpoint' = [endpoint EXCEPT ![c].pc = "closed", ![c].cause = "WebSocketDisconnect"]
    /\ active_connections' = Discard(active_connections, {c}, endpoint[c].graph_id)
    /\ frame' = Frames(c, frame[c], active_connections', endpoint[c].graph_id, {c})
    /\ UNCHANGED <<client, delivered, single, conc, store>>

\* lines 70-71, 75-85: the answer send_personal_message sends for a text
Answer(text) == IF text = "ping" THEN "pong" ELSE "error"

\* lines 64-71, 75-85: a text that is not broadcast is answered
ReceiveOther(c, text) ==
    /\ endpoint[c].pc = "receive"
    /\ client[c] = "open"
    /\ Received(Connections) < MaxMessages
    /\ text \notin BroadcastTypes
    /\ endpoint' = [endpoint EXCEPT ![c].received = @ + 1]
    /\ delivered' = delivered \cup {[from |-> Server, type |-> Answer(text), to |-> c]}
    /\ UNCHANGED <<active_connections, frame, client, single, conc, store>>

\* lines 42-45: the loop begins over the set registered for g and the first
\* connection it yields, x, is being sent to
Begin(text, g, x) ==
    [type |-> text, used |-> Cardinality(active_connections[g]),
     todo |-> active_connections[g] \ {x}, touched |-> FALSE, stale |-> FALSE,
     current |-> x, disconnected |-> {}, stayed |-> active_connections[g],
     outcome |-> "running"]

\* lines 64-74, 39-45: a text of a broadcast type starts broadcast_to_graph
ReceiveUpdate(c, text) ==
    /\ endpoint[c].pc = "receive"
    /\ client[c] = "open"
    /\ Received(Connections) < MaxMessages
    /\ text \in BroadcastTypes
    /\ IF endpoint[c].graph_id \notin DOMAIN active_connections
       THEN /\ endpoint' = [endpoint EXCEPT ![c].received = @ + 1]
            /\ UNCHANGED frame
       ELSE /\ endpoint' = [endpoint EXCEPT ![c].received = @ + 1, ![c].pc = "broadcast"]
            /\ \E x \in active_connections[endpoint[c].graph_id] :
                  frame' = [frame EXCEPT ![c] = Begin(text, endpoint[c].graph_id, x)]
    /\ UNCHANGED <<active_connections, client, delivered, single, conc, store>>

\* line 45: whether send_json to connection x succeeds
Reaches(x) == client[x] = "open" /\ endpoint[x].pc \notin {"none", "closed"}

\* lines 45-48: the send to the current connection returns or raises
Sent(c) ==
    IF Reaches(frame[c].current)
    THEN frame[c]
    ELSE [frame[c] EXCEPT !.disconnected = @ \cup {frame[c].current}]

Handed(c) ==
    IF Reaches(frame[c].current)
    THEN delivered \cup {[from |-> c, type |-> frame[c].type, to |-> frame[c].current]}
    ELSE delivered

\* line 43: the iterator finds the set of another size than when the loop
\* began
Resized(c) ==
    \/ frame[c].stale
    \/ Cardinality(Registered(active_connections, endpoint[c].graph_id)) # frame[c].used

\* the connections the iterator can yield next: those it has still to yield,
\* any connection of the set once the set was changed and has its size again
Yields(c) ==
    IF frame[c].touched THEN Registered(active_connections, endpoint[c].graph_id)
    ELSE frame[c].todo

\* lines 43-45: the send returns and the loop sends to the next connection
SendNext(c) ==
    /\ endpoint[c].pc = "broadcast"
    /\ ~Resized(c)
    /\ \E x \in Yields(c) :
          frame' = [frame EXCEPT ![c] = [Sent(c) EXCEPT !.current = x, !.todo = @ \ {x}]]
    /\ delivered' = Handed(c)
    /\ UNCHANGED <<active_connections, endpoint, client, single, conc, store>>

\* lines 43-52: the send returns, the loop ends and the connections whose send
\* raised are disconnected
SendLast(c) ==
    /\ endpoint[c].pc = "broadcast"
    /\ ~Resized(c)
    /\ frame[c].touched \/ frame[c].todo = {}
    /\ delivered' = Handed(c)
    /\ endpoint' = [endpoint EXCEPT ![c].pc = "receive"]
    /\ active_connections' =
           Discard(active_connections, Sent(c).disconnected, endpoint[c].graph_id)
    /\ frame' = IF Sent(c).disconnected = {}
                THEN [frame EXCEPT ![c] = [Sent(c) EXCEPT !.outcome = "returned"]]
                ELSE Frames(c, [Sent(c) EXCEPT !.outcome = "returned"],
                            active_connections', endpoint[c].graph_id, Sent(c).disconnected)
    /\ UNCHANGED <<client, single, conc, store>>

\* lines 43, 88-90: the send returns, the iterator raises RuntimeError (Set
\* changed size during iteration), which leaves broadcast_to_graph and the
\* loop of the endpoint; the endpoint disconnects its own connection and ends
SendFault(c) ==
    /\ endpoint[c].pc = "broadcast"
    /\ Resized(c)
    /\ delivered' = Handed(c)
    /\ endpoint' = [endpoint EXCEPT ![c].pc = "closed", ![c].cause = "Exception"]
    /\ active_connections' = Discard(active_connections, {c}, endpoint[c].graph_id)
    /\ frame' = Frames(c, [Sent(c) EXCEPT !.outcome = "RuntimeError"],
                       active_connections', endpoint[c].graph_id, {c})
    /\ UNCHANGED <<client, single, conc, store>>

NextSocket ==
    \/ \E c \in Connections, g \in GraphIds : Connect(c, g)
    \/ \E c \in Connections : ClientLeaves(c)
    \/ \E c \in Connections : ReceiveDisconnect(c)
    \/ \E c \in Connections, text \in Texts : ReceiveOther(c, text)
    \/ \E c \in Connections, text \in Texts : ReceiveUpdate(c, text)
    \/ \E c \in Connections : SendNext(c)
    \/ \E c \in Connections : SendLast(c)
    \/ \E c \in Connections : SendFault(c)

(***************************************************************************)
(* The state machine: one invocation of AIService.execute_generated_code,  *)
(* which calls CodeExecutor.execute_code and then the normalizer.          *)
(***************************************************************************)
\* the concurrent invocations, and the names tempfile can give a file
Invocations == 1..MaxInvocations
FileNames == {"tmpa.py", "tmpb.py", "tmpc.py"}

\* an invocation that has not been called: no file, no child
NoInvocation == [pc |-> "idle", file |-> "none", created |-> 0, children |-> 0,
                 outcome |-> "none"]

NoVerdict == [kind |-> "none", is_valid |-> FALSE, error |-> None]
NoProc    == [returncode |-> 0, stdout |-> "", stderr |-> ""]

Init ==
    /\ pc = "idle"
    /\ code = ""
    /\ verdict = NoVerdict
    /\ temp_file = "none"
    /\ child = "none"
    /\ spawned = 0
    /\ proc = NoProc
    /\ ret = NoReturn
    /\ result = NoResult
    /\ inv = [i \in Invocations |-> NoInvocation]
    /\ disk = {}
    /\ StoreEmpty
    /\ NobodyConnected

\* the endpoint calls execute_generated_code(code), which calls execute_code(code)
Submit(c) ==
    /\ pc = "idle"
    /\ pc' = "validate"
    /\ code' = c
    /\ UNCHANGED <<verdict, temp_file, child, spawned, proc, ret, result>>
    /\ UNCHANGED <<conc, store, sock>>

\* Validate without the early return of line 99
ValidateAlwaysProceeds ==
    /\ pc = "validate"
    /\ verdict' = validate_code(code)
    /\ pc' = "create"
    /\ UNCHANGED <<code, temp_file, child, spawned, proc, ret, result>>
    /\ UNCHANGED <<conc, store, sock>>

\* lines 97-99: validate first, return the reason when invalid
Validate ==
    /\ pc = "validate"
    /\ verdict' = validate_code(code)
    /\ IF verdict'.kind = "raise"
       THEN /\ ret' = ExecRaise(verdict'.error)
            /\ result' = GenRaise(verdict'.error)
            /\ pc' = "done"
       ELSE IF ~verdict'.is_valid
       THEN /\ ret' = ExecReturn(FALSE, JNull, verdict'.error)
            /\ result' = result
            /\ pc' = "return"
       ELSE /\ ret' = ret
            /\ result' = result
            /\ pc' = "create"
    /\ UNCHANGED <<code, temp_file, child, spawned, proc>>
    /\ UNCHANGED <<conc, store, sock>>

\* line 102: tempfile.NamedTemporaryFile(mode='w', suffix='.py', delete=False)
CreateTempFile ==
    /\ pc = "create"
    /\ \/ /\ temp_file' = "exists"
          /\ pc' = "write"
          /\ UNCHANGED <<ret, result>>
       \/ /\ temp_file' = temp_file          \* OSError: no file could be created
          /\ ret' = ExecRaise("OSError")
          /\ result' = GenRaise("OSError")
          /\ pc' = "done"
    /\ UNCHANGED <<code, verdict, child, spawned, proc>>
    /\ UNCHANGED <<conc, store, sock>>

\* lines 104-142: f.write(wrapped_code) and the end of the with block, which
\* closes the file and, because of delete=False, leaves it in place
WriteWrapped ==
    /\ pc = "write"
    /\ \/ /\ pc' = "spawn"
          /\ UNCHANGED <<ret, result>>
       \/ /\ ret' = ExecRaise("OSError")     \* write or flush failed; outside the try
          /\ result' = GenRaise("OSError")
          /\ pc' = "done"
    /\ UNCHANGED <<code, verdict, temp_file, child, spawned, proc>>
    /\ UNCHANGED <<conc, store, sock>>

\* lines 146-152: subprocess.run starts the child
Spawn ==
    /\ pc = "spawn"
    /\ \/ /\ child' = "running"
          /\ spawned' = spawned + 1
          /\ pc' = "wait"
          /\ ret' = ret
       \/ /\ ret' = ExecReturn(FALSE, JNull, ExecutionErrorMessage("OSError"))
          /\ pc' = "finally"                 \* line 194: the child never started
          /\ UNCHANGED <<child, spawned>>
    /\ UNCHANGED <<code, verdict, temp_file, proc, result>>
    /\ UNCHANGED <<conc, store, sock>>

\* subprocess.run returns: the child exited before the deadline
ChildExits ==
    /\ pc = "wait"
    /\ child = "running"
    /\ child' = "exited"
    /\ proc' = ChildOf(ProgramOf(code))
    /\ pc' = "map"
    /\ UNCHANGED <<code, verdict, temp_file, spawned, ret, result>>
    /\ UNCHANGED <<conc, store, sock>>

\* Timeout that abandons the child instead of killing it
TimeoutAbandonsChild ==
    /\ pc = "wait"
    /\ child = "running"
    /\ ret' = ExecReturn(FALSE, JNull, TimedOutMessage)
    /\ pc' = "finally"
    /\ UNCHANGED <<code, verdict, temp_file, child, spawned, proc, result>>
    /\ UNCHANGED <<conc, store, sock>>

\* subprocess.run with timeout=: at the deadline it kills the child, waits for
\* it and raises TimeoutExpired, caught at line 192
Timeout ==
    /\ pc = "wait"
    /\ child = "running"
    /\ child' = "killed"
    /\ ret' = ExecReturn(FALSE, JNull, TimedOutMessage)
    /\ pc' = "finally"
    /\ UNCHANGED <<code, verdict, temp_file, spawned, proc, result>>
    /\ UNCHANGED <<conc, store, sock>>

\* subprocess.run fails while it supervises the child (reading or decoding the
\* pipes): it kills the child and re-raises, caught at line 194
CommunicateFails ==
    /\ pc = "wait"
    /\ child = "running"
    /\ child' = "killed"
    /\ ret' = ExecReturn(FALSE, JNull, ExecutionErrorMessage("UnicodeDecodeError"))
    /\ pc' = "finally"
    /\ UNCHANGED <<code, verdict, temp_file, spawned, proc, result>>
    /\ UNCHANGED <<conc, store, sock>>

\* lines 154-190
MapOutcome ==
    /\ pc = "map"
    /\ ret' = MapCompleted(proc)
    /\ pc' = "finally"
    /\ UNCHANGED <<code, verdict, temp_file, child, spawned, proc, result>>
    /\ UNCHANGED <<conc, store, sock>>

\* lines 196-201: os.unlink(temp_file)
Finally ==
    /\ pc = "finally"
    /\ temp_file' = IF temp_file = "exists" THEN "deleted" ELSE temp_file
    /\ pc' = "return"
    /\ UNCHANGED <<code, verdict, child, spawned, proc, ret, result>>
    /\ UNCHANGED <<conc, store, sock>>

\* ai_service.py lines 137-144: execute_code has returned
Return ==
    /\ pc = "return"
    /\ result' = execute_generated_code(ret, DefaultGraphName)
    /\ pc' = "done"
    /\ UNCHANGED <<code, verdict, temp_file, child, spawned, proc, ret>>
    /\ UNCHANGED <<conc, store, sock>>

Next ==
    \/ \E c \in PipelineSources : Submit(c)
    \/ Validate
    \/ CreateTempFile
    \/ WriteWrapped
    \/ Spawn
    \/ ChildExits
    \/ Timeout
    \/ CommunicateFails
    \/ MapOutcome
    \/ Finally
    \/ Return

Spec == Init /\ [][Next]_vars

\* subprocess.run without timeout=: nothing makes the deadline pass
NoDeadline == TRUE

\* line 151, timeout=EXECUTION_TIMEOUT: the deadline timer of subprocess.run
\* runs while the child does, so a child that stays running meets the deadline
DeadlineFairness == WF_vars(Timeout)

\* the interpreter keeps running execute_code once subprocess.run is over:
\* the mapping of the outcome, the finally block and the return each happen
ProgressFairness == WF_vars(MapOutcome) /\ WF_vars(Finally) /\ WF_vars(Return)

\* no fairness for the child, which may never exit, nor for the failures
SpecFair == Spec /\ DeadlineFairness /\ ProgressFairness

(***************************************************************************)
(* Concurrent invocations of execute_code (lines 97-201), each at its own  *)
(* position; what the child prints plays no part here.  The temporary      *)
(* directory is the one thing the invocations share.                       *)
(***************************************************************************)
\* execute_code is called; lines 97-99 return for a rejected source
Call(i) ==
    /\ inv[i].pc = "idle"
    /\ \/ inv' = [inv EXCEPT ![i].pc = "create"]
       \/ inv' = [inv EXCEPT ![i].pc = "done", ![i].outcome = "rejected"]
    /\ UNCHANGED disk
    /\ UNCHANGED <<single, store, sock>>

\* NamedTemporaryFile that does not open the file exclusively
NamedTemporaryFileAnyName(i) ==
    /\ inv[i].pc = "create"
    /\ \/ \E name \in FileNames :
              /\ inv' = [inv EXCEPT ![i].pc = "write", ![i].file = name,
                                    ![i].created = @ + 1]
              /\ disk' = disk \cup {name}
       \/ /\ inv' = [inv EXCEPT ![i].pc = "done", ![i].outcome = "raised"]
          /\ disk' = disk
    /\ UNCHANGED <<single, store, sock>>

\* line 102: tempfile opens a file under a name that no file has (O_EXCL);
\* OSError when it can create none
NamedTemporaryFile(i) ==
    /\ inv[i].pc = "create"
    /\ \/ \E name \in FileNames \ disk :
              /\ inv' = [inv EXCEPT ![i].pc = "write", ![i].file = name,
                                    ![i].created = @ + 1]
              /\ disk' = disk \cup {name}
       \/ /\ inv' = [inv EXCEPT ![i].pc = "done", ![i].outcome = "raised"]
          /\ disk' = disk
    /\ UNCHANGED <<single, store, sock>>

\* lines 141-142: f.write and the end of the with block; an exception here
\* leaves execute_code before the try block
WriteFile(i) ==
    /\ inv[i].pc = "write"
    /\ \/ inv' = [inv EXCEPT ![i].pc = "spawn"]
       \/ inv' = [inv EXCEPT ![i].pc = "done", ![i].outcome = "raised"]
    /\ UNCHANGED disk
    /\ UNCHANGED <<single, store, sock>>

\* lines 146-152: subprocess.run starts the child, or fails to (line 194)
Run(i) ==
    /\ inv[i].pc = "spawn"
    /\ \/ inv' = [inv EXCEPT ![i].pc = "wait", ![i].children = @ + 1]
       \/ inv' = [inv EXCEPT ![i].pc = "finally", ![i].outcome = "error"]
    /\ UNCHANGED disk
    /\ UNCHANGED <<single, store, sock>>

\* lines 154-190: the child exited and its output was mapped
RunCompletes(i) ==
    /\ inv[i].pc = "wait"
    /\ inv' = [inv EXCEPT ![i].pc = "finally", ![i].outcome = "completed"]
    /\ UNCHANGED disk
    /\ UNCHANGED <<single, store, sock>>

\* lines 192-193: the deadline passed, the child was killed
RunTimesOut(i) ==
    /\ inv[i].pc = "wait"
    /\ inv' = [inv EXCEPT ![i].pc = "finally", ![i].outcome = "timeout"]
    /\ UNCHANGED disk
    /\ UNCHANGED <<single, store, sock>>

\* lines 196-201: os.unlink(temp_file), then the return
Unlink(i) ==
    /\ inv[i].pc = "finally"
    /\ disk' = disk \ {inv[i].file}
    /\ inv' = [inv EXCEPT ![i].pc = "done"]
    /\ UNCHANGED <<single, store, sock>>

NextConcurrent ==
    \E i \in Invocations :
        \/ Call(i)
        \/ NamedTemporaryFile(i)
        \/ WriteFile(i)
        \/ Run(i)
        \/ RunCompletes(i)
        \/ RunTimesOut(i)
        \/ Unlink(i)

SpecConcurrent == Init /\ [][NextConcurrent]_vars

\* the database under any sequence of calls of the execute-code endpoint, of
\* the graph routes, and of the project routes
SpecEndpoint == Init /\ [][NextEndpoint]_vars
SpecGraphs == Init /\ [][NextGraphs]_vars
SpecProjects == Init /\ [][NextProjects]_vars

\* the connection manager under any interleaving of its endpoints
SpecSocket == Init /\ [][NextSocket]_vars

(***************************************************************************)
(* The validator on its own: every submission of Sources is validated.     *)
(***************************************************************************)
InitValidate ==
    /\ pc = "validate"
    /\ code \in Sources
    /\ verdict = NoVerdict
    /\ temp_file = "none"
    /\ child = "none"
    /\ spawned = 0
    /\ proc = NoProc
    /\ ret = NoReturn
    /\ result = NoResult
    /\ inv = [i \in Invocations |-> NoInvocation]
    /\ disk = {}
    /\ StoreEmpty
    /\ NobodyConnected

NextValidate == Validate

SpecValidate == InitValidate /\ [][NextValidate]_vars

(***************************************************************************)
(* The handling of a finished child on its own: the child of an accepted   *)
(* submission has exited with code 0 and printed one of Outputs, or the    *)
(* JSON text of one of GraphDatas.                                         *)
(***************************************************************************)
AcceptedSource == "import math\nx = 1"

ChildOutputs == Outputs \cup {JsonDumps(g) \o "\n" : g \in GraphDatas}

InitNormalize ==
    /\ pc = "map"
    /\ code = AcceptedSource
    /\ verdict = validate_code(AcceptedSource)
    /\ temp_file = "exists"
    /\ child = "exited"
    /\ spawned = 1
    /\ \E out \in ChildOutputs : proc = [returncode |-> 0, stdout |-> out, stderr |-> ""]
    /\ ret = NoReturn
    /\ result = NoResult
    /\ inv = [i \in Invocations |-> NoInvocation]
    /\ disk = {}
    /\ StoreEmpty
    /\ NobodyConnected

NextNormalize == MapOutcome \/ Finally \/ Return

SpecNormalize == InitNormalize /\ [][NextNormalize]_vars

(***************************************************************************)
(* The normalizer on edge lists: the child of an accepted submission has   *)
(* printed a graph of 0..MaxNodes positions whose edges are self-loops,    *)
(* repeated edges and maps that leave an index out.                        *)
(***************************************************************************)
EdgeForms ==
    { JList(<< JInt(0), JInt(0) >>),
      JList(<< JInt(0), JInt(1) >>),
      JList(<< JInt(0), JInt(9) >>),
      JList(<< JInt(0) >>),
      JDict(<<>>),
      JDict(<< <<"source_id", JInt(1)>> >>),
      JDict(<< <<"target_id", JInt(1)>>, <<"weight", JFloat(25)>> >>),
      JDict(<< <<"source_id", JInt(1)>>, <<"target_id", JInt(1)>> >>) }

EdgeLists ==
    {GraphData(PlainNodes(k), JList(es)) : k \in 0..MaxNodes, es \in SeqsUpTo(EdgeForms, MaxEdges)}

InitEdges ==
    /\ pc = "map"
    /\ code = AcceptedSource
    /\ verdict = validate_code(AcceptedSource)
    /\ temp_file = "exists"
    /\ child = "exited"
    /\ spawned = 1
    /\ \E g \in EdgeLists : proc = [returncode |-> 0, stdout |-> JsonDumps(g) \o "\n", stderr |-> ""]
    /\ ret = NoReturn
    /\ result = NoResult
    /\ inv = [i \in Invocations |-> NoInvocation]
    /\ disk = {}
    /\ StoreEmpty
    /\ NobodyConnected

SpecEdges == InitEdges /\ [][NextNormalize]_vars

(***************************************************************************)
(* Properties.                                                             *)
(***************************************************************************)
Finished == pc = "done"

Rejected == verdict.kind = "return" /\ ~verdict.is_valid
Accepted == verdict.kind = "return" /\ verdict.is_valid

\* C1: a submission that validate_code rejects makes execute_code return the
\* rejection reason without a temporary file or a child process ever existing;
\* whenever a file or a child exists, the verdict of this invocation is Accepted.
C1_RejectedNeverRuns ==
    /\ (temp_file # "none" \/ child # "none" \/ spawned > 0) =>
           (Accepted /\ verdict = validate_code(code))
    /\ Rejected =>
           /\ ret = ExecReturn(FALSE, JNull, verdict.error)
           /\ temp_file = "none" /\ child = "none" /\ spawned = 0

C1_Witness ==
    /\ Finished /\ Rejected /\ spawned = 0 /\ temp_file = "none"
    /\ result = GenReturn(FALSE, SchemaRaised(None), verdict.error)

\* keyword k occurs in source s at position i, letter case ignored
OccursAt(s, k, i) ==
    /\ i + Len(k) - 1 <= Len(s)
    /\ \A j \in 1..Len(k) : LowerChar(CharAt(s, i + j - 1)) = LowerChar(CharAt(k, j))

Denylisted(s) == {k \in Range(BLOCKED_KEYWORDS) : \E i \in 1..Len(s) : OccursAt(s, k, i)}

ScenarioImportOs == "import os\nprint(\"hi\")"

\* C2: a source that contains a BLOCKED_KEYWORDS token, letter case ignored, is
\* rejected with "Blocked operation detected: <token>" for a token that occurs
\* in it; the source  import os / print("hi")  is rejected with the token
\* "import os".
C2_DenylistRejects ==
    verdict.kind # "none" =>
        /\ Denylisted(code) # {} =>
               \E k \in Denylisted(code) :
                   verdict = Returned(FALSE, "Blocked operation detected: " \o k)
        /\ code = ScenarioImportOs =>
               verdict = Returned(FALSE, "Blocked operation detected: import os")

C2_Witness ==
    /\ code = ScenarioImportOs
    /\ verdict = Returned(FALSE, "Blocked operation detected: import os")

TopLevel(name) == Split(name, ".")[1]

\* some import statement of the tree names a module whose top-level component
\* is outside ALLOWED_IMPORTS
ForeignImport(node) ==
    \/ node.type = "Import"
         /\ \E i \in DOMAIN node.names : TopLevel(node.names[i]) \notin ALLOWED_IMPORTS
    \/ node.type = "ImportFrom"
         /\ node.module # None
         /\ TopLevel(node.module) \notin ALLOWED_IMPORTS

HasForeignImport(source) ==
    \E i \in DOMAIN AstWalk(AstParse(source).tree) :
        ForeignImport(AstWalk(AstParse(source).tree)[i])

\* C3: a denylist-free, syntactically valid source is rejected with "Import not
\* allowed: <name>" exactly when some import statement has a top-level module
\* component outside ALLOWED_IMPORTS, for the plain and the from form alike;
\* otherwise it is accepted.
C3_ImportsByTopLevel ==
    (verdict.kind = "return" /\ Denylisted(code) = {} /\ AstParse(code).exc = None) =>
        IF HasForeignImport(code)
        THEN ~verdict.is_valid /\ StartsWith(verdict.error, "Import not allowed: ")
        ELSE verdict = Returned(TRUE, None)

\* C4: when execute_code has the timed-out result, the child it spawned has
\* been terminated: the result never coexists with a running child.
C4_TimedOutChildKilled ==
    (ret.error = TimedOutMessage \/ result.error = TimedOutMessage) =>
        (spawned = 1 /\ child = "killed")

C4_Witness ==
    Finished /\ result = GenReturn(FALSE, SchemaRaised(None), TimedOutMessage) /\ child = "killed"

\* C5: on every exit path on which the temporary file was created, the file no
\* longer exists when the invocation has finished.
C5_TempFileRemoved == Finished => temp_file # "exists"

IsNumberJ(x) == x[1] \in {"int", "float"}

\* an edge element whose indices are integers: [s, t], [s, t, w] or a map
IndexedEdge(e) ==
    \/ /\ e[1] = "list"
       /\ Len(e[2]) >= 2
       /\ e[2][1][1] = "int" /\ e[2][2][1] = "int"
       /\ Len(e[2]) > 2 => IsNumberJ(e[2][3])
    \/ /\ e[1] = "dict"
       /\ HasKey(e, "source_id") /\ DictGet(e, "source_id", JNull)[1] = "int"
       /\ HasKey(e, "target_id") /\ DictGet(e, "target_id", JNull)[1] = "int"
       /\ HasKey(e, "weight") => IsNumberJ(DictGet(e, "weight", JNull))

EdgeSource(e) == IF e[1] = "list" THEN e[2][1][2] ELSE DictGet(e, "source_id", JNull)[2]
EdgeTarget(e) == IF e[1] = "list" THEN e[2][2][2] ELSE DictGet(e, "target_id", JNull)[2]

\* a nodes value that is a list of positions
PositionList(ns) ==
    /\ ns[1] = "list"
    /\ \A i \in DOMAIN ns[2] :
           /\ ns[2][i][1] = "list"
           /\ \A k \in DOMAIN ns[2][i][2] : IsNumberJ(ns[2][i][2][k])

InputNodes == DictGet(ret.graph_data, "nodes", JNull)
InputEdges == DictGet(ret.graph_data, "edges", JNull)

\* C6: every edge of the structure convert_to_graph_schema returns has both
\* indices in 0 .. len(nodes) - 1; input edges with an out-of-range index are
\* dropped without an error: over a list of positions, edges that all have
\* integer indices give a result that keeps exactly the in-range ones.
C6_EdgesInRange ==
    (Finished /\ ret.success) =>
        /\ result.kind = "return" =>
               \A i \in DOMAIN result.graph.edges :
                   /\ 0 <= result.graph.edges[i].source_id
                   /\ result.graph.edges[i].source_id < Len(result.graph.nodes)
                   /\ 0 <= result.graph.edges[i].target_id
                   /\ result.graph.edges[i].target_id < Len(result.graph.nodes)
        /\ ( /\ PositionList(InputNodes)
             /\ InputEdges[1] = "list"
             /\ \A i \in DOMAIN InputEdges[2] : IndexedEdge(InputEdges[2][i]) ) =>
               /\ result.kind = "return" /\ result.success
               /\ Len(result.graph.nodes) = Len(InputNodes[2])
               /\ Len(result.graph.edges) =
                      Cardinality({i \in DOMAIN InputEdges[2] :
                          /\ EdgeSource(InputEdges[2][i]) \in 0..(Len(InputNodes[2]) - 1)
                          /\ EdgeTarget(InputEdges[2][i]) \in 0..(Len(InputNodes[2]) - 1)})

C6_Witness ==
    /\ Finished /\ result.success
    /\ ret.graph_data =
           GraphData(PlainNodes(2),
                     JList(<< JList(<< JInt(0), JInt(9) >>), JList(<< JInt(0), JInt(1) >>) >>))
    /\ Len(result.graph.nodes) = 2
    /\ Len(result.graph.edges) = 1
    /\ result.graph.edges[1].target_id = 1

\* C7: execute_generated_code returns (True, graph, None) or (False, None,
\* non-empty reason) and never raises; the normalizer runs only after
\* execute_code reported success.
C7_TypedResultNeverRaises ==
    Finished =>
        /\ result.kind = "return"
        /\ result.success => (result.error = None /\ ret.success /\ result.graph.kind = "return")
        /\ ~result.success => (result.error \notin {None, ""} /\ result.graph.kind # "return")

\* C8: for a parsed map with nodes and edges keys, whatever the shape of the
\* values and of their elements, normalization returns a graph and never fails.
C8_CoercionNeverFails ==
    (Finished /\ ret.success) => (result.kind = "return" /\ result.success)

\* C9: a run of the child has exactly one outcome: exit code 0 gives the
\* handling of the captured stdout, a non-zero exit code the failure with the
\* captured stderr or "Code execution failed" when it is empty, a spawn or OS
\* exception the process error with its message, deadline expiry the timed-out
\* failure.
C9_OneOutcomePerRun ==
    (pc \in {"finally", "return", "done"} /\ Accepted /\ ret.kind # "raise") =>
        /\ ret.kind = "return"
        /\ child # "running"
        /\ (child = "exited" /\ proc.returncode = 0) => ret = ParseOutput(proc.stdout)
        /\ (child = "exited" /\ proc.returncode # 0) =>
               ret = ExecReturn(FALSE, JNull,
                                IF proc.stderr = "" THEN "Code execution failed"
                                ELSE proc.stderr)
        /\ child = "killed" =>
               ret \in { ExecReturn(FALSE, JNull, TimedOutMessage),
                         ExecReturn(FALSE, JNull, "Execution error: UnicodeDecodeError") }
        /\ child = "none" => ret = ExecReturn(FALSE, JNull, "Execution error: OSError")

C9_Witness ==
    /\ Finished /\ child = "exited"
    /\ proc.returncode # 0 /\ proc.stderr = ""
    /\ result = GenReturn(FALSE, SchemaRaised(None), "Code execution failed")

\* the line starts with { or [ after its leading white space
StartsJson(line) ==
    \E i \in 1..Len(line) :
        /\ CharAt(line, i) \in {"{", "["}
        /\ \A k \in 1..(i - 1) : IsSpace(CharAt(line, k))

\* the last line of the captured stdout that starts with { or [, trimmed; the
\* whole trimmed output when there is no such line
LastJsonLine(stdout) ==
    LET lines == Split(stdout, "\n")
        found == {i \in DOMAIN lines : StartsJson(lines[i])}
    IN IF found = {} THEN Strip(stdout)
       ELSE Strip(lines[CHOOSE i \in found : \A j \in found : j <= i])

\* C10: on a successful run with non-empty output the JSON payload is the last
\* line of the captured stdout whose trimmed text starts with { or [, whatever
\* the lines before it are; the whole trimmed output is parsed only when no line
\* starts with { or [.
C10_LastJsonLineDecides ==
    (pc \in {"finally", "return", "done"} /\ child = "exited"
        /\ proc.returncode = 0 /\ Strip(proc.stdout) # "") =>
        ret = LoadGraphData(LastJsonLine(proc.stdout))

C10_Witness ==
    /\ Finished /\ result.success
    /\ proc.stdout = "{\n{\"nodes\": [[1, 2, 3]], \"edges\": [[0, 0]]}\ndone\n"
    /\ Len(result.graph.nodes) = 1

\* the node and the edge of the scenario: position (1.0, 2.0, 3.0) with the
\* generated label, and the self-loop with the default weight and color
ScenarioNode ==
    [label |-> JStr("Node 1"), x |-> 10, y |-> 20, z |-> 30,
     color |-> JStr("#3498db"), size |-> 10, extra_data |-> <<"missing", 0>>]

ScenarioEdge ==
    [source_id |-> 0, target_id |-> 0, weight |-> 10, directed |-> FALSE,
     color |-> JStr("#95a5a6"), extra_data |-> <<"missing", 0>>]

\* the run of the submitted program went through the child and has returned
RanToEnd(program) == Finished /\ code = SourceOf(program) /\ child = "exited"

\* execute_generated_code returned the graph with these nodes and edges
Succeeded(nodes, edges) ==
    /\ result.kind = "return" /\ result.success
    /\ result.graph.kind = "return"
    /\ result.graph.nodes = nodes
    /\ result.graph.edges = edges

\* C11 as stated: the submission that prints diagnostics and then prints the
\* payload itself, assigning no result, yields the one node at (1.0, 2.0, 3.0)
\* labelled "Node 1" and the one self-loop edge.
C11_PrintedPayloadIsResult ==
    RanToEnd(ScenarioPrinted) => Succeeded(<<ScenarioNode>>, <<ScenarioEdge>>)

\* C11 amended: the submission that prints diagnostics and then prints the
\* payload itself, assigning no result, succeeds with the empty graph, since
\* the wrapper prints its fallback result after the payload; the same payload
\* assigned to result yields the one node at (1.0, 2.0, 3.0) labelled "Node 1"
\* and the one self-loop edge 0->0 with weight 1.0, undirected, color "#95a5a6".
C11_AssignedPayloadIsResult ==
    /\ RanToEnd(ScenarioPrinted) => Succeeded(<<>>, <<>>)
    /\ RanToEnd(ScenarioAssigned) => Succeeded(<<ScenarioNode>>, <<ScenarioEdge>>)

C11_Witness ==
    /\ RanToEnd(ScenarioPrinted)
    /\ proc.stdout = "building\n" \o JsonDumps(ScenarioGraph) \o "\n{\"nodes\": [], \"edges\": []}\n"
    /\ result.success

\* the child of the run exited with code 0
ExitedZero == pc \in {"finally", "return", "done"} /\ child = "exited" /\ proc.returncode = 0

\* no line of the text, and not the text as a whole, is a JSON document
NoParseableLine(stdout) ==
    /\ ~JsonLoads(Strip(stdout)).ok
    /\ \A i \in DOMAIN Split(stdout, "\n") : ~JsonLoads(Strip(Split(stdout, "\n")[i])).ok

\* the malformed-output error of execute_code
MalformedOutput ==
    /\ ret.kind = "return" /\ ~ret.success /\ ret.graph_data = JNull
    /\ \/ ret.error = "No output from code execution"
       \/ StartsWith(ret.error, "Failed to parse output as JSON: ")

\* the program assigns no result and prints nothing
Silent(program) ==
    \A i \in DOMAIN program :
        /\ program[i].op \notin {"print", "dump"}
        /\ ~(program[i].op = "assign" /\ program[i].name = "result")

\* the user code of the program runs to completion
Completes(program) == Executed(program) = program

\* C12 as stated: a child that exits with code 0 without a parseable JSON
\* result line, be it by empty output, by output that is not JSON or by a
\* submission that assigns no result and prints nothing, gives the
\* malformed-output error and never a graph.
C12_NoResultLineIsMalformed ==
    (ExitedZero /\ (NoParseableLine(proc.stdout) \/ Silent(ProgramOf(code)))) =>
        MalformedOutput

\* C12 amended: a child that exits with code 0 and whose captured stdout holds
\* no parseable JSON line (empty output, or output that is not JSON) gives the
\* malformed-output error and never a graph; a submission that assigns no
\* result and prints nothing and runs to completion is not such a case: the
\* wrapper prints its fallback result, and execute_code succeeds with it.
C12_UnparseableIsMalformed ==
    /\ (ExitedZero /\ NoParseableLine(proc.stdout)) =>
           (MalformedOutput /\ (Finished => ~result.success))
    /\ (ExitedZero /\ Silent(ProgramOf(code)) /\ Completes(ProgramOf(code))) =>
           /\ ~NoParseableLine(proc.stdout)
           /\ ret = ExecReturn(TRUE, convert_to_dict(EnsureResult(ProgramOf(code))), None)

C12_Witness ==
    /\ Finished /\ ExitedZero
    /\ proc.stdout = "hello\n"
    /\ ret.error = "Failed to parse output as JSON: Expecting value"
    /\ ~result.success

\* the payload json.loads returned for the captured stdout
Payload == JsonLoads(LastJsonLine(proc.stdout))

\* the child exited with code 0 and its payload parsed
PayloadParsed == ExitedZero /\ Strip(proc.stdout) # "" /\ Payload.ok

\* the invalid-shape error of execute_code
InvalidShape ==
    /\ ret.kind = "return" /\ ~ret.success /\ ret.graph_data = JNull
    /\ ret.error \in {"Result must be a dictionary",
                      "Result must contain 'nodes' and 'edges' keys"}

IsMap(x) == x[1] = "dict"

\* the shape check of the claim on payload x: rejected when it is no map or
\* has neither key, passed on when it is a map with at least one key
ShapeAsClaimed(x) ==
    /\ InvalidShape <=>
           \/ ~IsMap(x)
           \/ ~HasKey(x, "nodes") /\ ~HasKey(x, "edges")
    /\ (IsMap(x) /\ (HasKey(x, "nodes") \/ HasKey(x, "edges"))) =>
           ret = ExecReturn(TRUE, x, None)

\* the shape check on payload x: rejected when it is no map or lacks a key,
\* passed on when it is a map with both keys
ShapeBothKeys(x) ==
    /\ InvalidShape <=>
           \/ ~IsMap(x)
           \/ ~HasKey(x, "nodes")
           \/ ~HasKey(x, "edges")
    /\ (IsMap(x) /\ HasKey(x, "nodes") /\ HasKey(x, "edges")) =>
           ret = ExecReturn(TRUE, x, None)

\* C13 as stated: a parsed payload is rejected with the invalid-shape error
\* exactly when it is not a map or is a map with neither a nodes nor an edges
\* key; a map with at least one of the two keys passes without error.
C13_RejectedWhenNeitherKey ==
    (Finished /\ ExitedZero /\ Strip(proc.stdout) # "") =>
        \A payload \in {Payload} : payload.ok => ShapeAsClaimed(payload.val)

\* C13 amended: a parsed payload is rejected with the invalid-shape error
\* exactly when it is not a map or is a map that lacks the nodes key or the
\* edges key; a map that has both keys is passed to coercion without error.
C13_RejectedWhenEitherKeyMissing ==
    (Finished /\ ExitedZero /\ Strip(proc.stdout) # "") =>
        \A payload \in {Payload} : payload.ok => ShapeBothKeys(payload.val)

C13_Witness ==
    /\ Finished /\ PayloadParsed
    /\ Payload.val = JDict(<< <<"edges", JList(<<JBool(TRUE), JBool(FALSE)>>)>> >>)
    /\ ret.error = "Result must contain 'nodes' and 'edges' keys"
    /\ ~result.success

\* a JSON number counted in tenths
Tenths(v) == IF v[1] = "int" THEN 10 * v[2] ELSE v[2]

\* the coordinate is the one claimed for the field value v: the number itself
FieldAsClaimed(v, coordinate) == IsNumberJ(v) => coordinate = Tenths(v)

\* the node built for element elem at 0-based index i is the one claimed
NodeAsClaimed(i, elem, node) ==
    CASE elem[1] = "dict" ->
             /\ node.label = DictGet(elem, "label", NodeLabel(i))
             /\ FieldAsClaimed(DictGet(elem, "x", JInt(0)), node.x)
             /\ FieldAsClaimed(DictGet(elem, "y", JInt(0)), node.y)
             /\ FieldAsClaimed(DictGet(elem, "z", JInt(0)), node.z)
             /\ node.color = DictGet(elem, "color", JStr("#3498db"))
             /\ FieldAsClaimed(DictGet(elem, "size", JInt(1)), node.size)
      [] elem[1] = "list" ->
             /\ node.label = NodeLabel(i)
             /\ FieldAsClaimed(IF Len(elem[2]) > 0 THEN elem[2][1] ELSE JInt(0), node.x)
             /\ FieldAsClaimed(IF Len(elem[2]) > 1 THEN elem[2][2] ELSE JInt(0), node.y)
             /\ FieldAsClaimed(IF Len(elem[2]) > 2 THEN elem[2][3] ELSE JInt(0), node.z)
             /\ node.color = JStr("#3498db") /\ node.size = 10
      [] OTHER ->
             /\ node.label = NodeLabel(i)
             /\ node.x = 0 /\ node.y = 0 /\ node.z = 0
             /\ node.color = JStr("#3498db") /\ node.size = 10

\* C14: convert_to_graph_schema returns exactly one node per element of the
\* nodes list, in input order: a map element gives its named fields with the
\* defaults, a sequence element x, y, z from its first three entries, any other
\* element all defaults, each with label "Node <i+1>" unless a map names one.
C14_OneNodePerElement ==
    (Finished /\ ret.success /\ InputNodes[1] = "list" /\ InputEdges = JList(<<>>)) =>
        /\ result.kind = "return" /\ result.success
        /\ Len(result.graph.nodes) = Len(InputNodes[2])
        /\ \A i \in DOMAIN InputNodes[2] :
               NodeAsClaimed(i - 1, InputNodes[2][i], result.graph.nodes[i])

\* the index is the one claimed for the field value v: the integer itself
IndexAsClaimed(v, index) == v[1] = "int" => index = v[2]

\* the edge is the one claimed for the edge element e
EdgeAsClaimed(e, edge) ==
    CASE e[1] = "dict" ->
             /\ IndexAsClaimed(DictGet(e, "source_id", JInt(0)), edge.source_id)
             /\ IndexAsClaimed(DictGet(e, "target_id", JInt(0)), edge.target_id)
             /\ FieldAsClaimed(DictGet(e, "weight", JInt(1)), edge.weight)
             /\ DictGet(e, "directed", JBool(FALSE))[1] = "bool" =>
                    edge.directed = DictGet(e, "directed", JBool(FALSE))[2]
             /\ edge.color = DictGet(e, "color", JStr("#95a5a6"))
      [] e[1] = "list" /\ Len(e[2]) >= 2 ->
             /\ IndexAsClaimed(e[2][1], edge.source_id)
             /\ IndexAsClaimed(e[2][2], edge.target_id)
             /\ FieldAsClaimed(IF Len(e[2]) > 2 THEN e[2][3] ELSE JInt(1), edge.weight)
             /\ ~edge.directed
             /\ edge.color = JStr("#95a5a6")
      [] OTHER -> FALSE

\* the edge element has integer indices that are both in range of n nodes
InRangeEdge(e, n) ==
    /\ IndexedEdge(e)
    /\ EdgeSource(e) \in 0..(n - 1)
    /\ EdgeTarget(e) \in 0..(n - 1)

\* C15: each element of edges is coerced by its shape: a map gives an edge from
\* its named fields with defaults weight 1.0, undirected, color "#95a5a6"; a
\* sequence of length >= 2 gives source, target and optional weight, undirected
\* with the default color; an element of any other shape is skipped without
\* error.  So over a list of positions every returned edge is the claimed edge
\* of an input element, and every in-range element has its edge returned.
C15_EdgesByShape ==
    (Finished /\ ret.success /\ PositionList(InputNodes) /\ InputEdges[1] = "list") =>
        /\ result.kind = "return" /\ result.success
        /\ \A j \in DOMAIN result.graph.edges :
               \E i \in DOMAIN InputEdges[2] :
                   EdgeAsClaimed(InputEdges[2][i], result.graph.edges[j])
        /\ \A i \in DOMAIN InputEdges[2] :
               InRangeEdge(InputEdges[2][i], Len(InputNodes[2])) =>
                   \E j \in DOMAIN result.graph.edges :
                       EdgeAsClaimed(InputEdges[2][i], result.graph.edges[j])

\* a line of the source ends in an operator that has no operand
NoOperand(source) ==
    \E i \in DOMAIN Split(source, "\n") : EndsWith(Strip(Split(source, "\n")[i]), "-")

\* the source is not a Python program: a line lacks an operand, or the parser
\* reports a syntax error
SyntacticallyInvalid(source) == NoOperand(source) \/ AstParse(source).exc = "SyntaxError"

\* C16: for every syntactically invalid source validate_code returns a
\* rejection and never raises; when the source holds no denylisted token the
\* reason is "Syntax error: " followed by the parser's message.
C16_InvalidSyntaxRejected ==
    (verdict.kind # "none" /\ SyntacticallyInvalid(code)) =>
        /\ Rejected
        /\ Denylisted(code) = {} => StartsWith(verdict.error, "Syntax error: ")

\* the verdict is a rejection whose reason starts with the prefix
RejectedWith(prefix) == Rejected /\ StartsWith(verdict.error, prefix)

\* C17: validate_code checks in the order denylist scan, syntax check, import
\* allow-list: a source with a denylisted token is rejected with the "Blocked
\* operation detected" reason even when it is also syntactically invalid or
\* imports a disallowed module; without such a token a syntax error of the
\* parser gives the "Syntax error" reason; a syntactically invalid source is
\* never rejected with an import reason.
C17_ChecksInOrder ==
    verdict.kind # "none" =>
        /\ Denylisted(code) # {} => RejectedWith("Blocked operation detected: ")
        /\ (Denylisted(code) = {} /\ AstParse(code).exc = "SyntaxError") =>
               RejectedWith("Syntax error: ")
        /\ SyntacticallyInvalid(code) => ~RejectedWith("Import not allowed: ")
        /\ RejectedWith("Import not allowed: ") =>
               (Denylisted(code) = {} /\ AstParse(code).exc = None)

C17_Witness ==
    /\ code = "import os\nx = )"
    /\ Denylisted(code) # {} /\ SyntacticallyInvalid(code)
    /\ verdict = Returned(FALSE, "Blocked operation detected: import os")

\* C18: when the user code runs to completion the wrapper emits the JSON
\* serialization of result as the final line of stdout, result being the
\* user's own result variable if one was assigned, else the dict built from the
\* loose nodes and edges variables, else the empty graph.
C18_WrapperEmitsResult ==
    (pc \in {"map", "finally", "return", "done"} /\ child = "exited"
        /\ Completes(ProgramOf(code))) =>
        /\ proc.returncode = 0
        /\ EndsWith(proc.stdout,
                    JsonDumps(convert_to_dict(EnsureResult(ProgramOf(code)))) \o "\n")

\* the invocation holds a temporary file: created and not yet unlinked
HoldsFile(i) == inv[i].pc \in {"write", "spawn", "wait", "finally"}

\* C19: under any interleaving of concurrent invocations of execute_code, each
\* creates at most one temporary file and spawns at most one child, also after
\* a failure or a timeout; the file of an invocation differs from the file of
\* every other live invocation, and no cleanup deletes another invocation's
\* file: the file an invocation holds is on disk until its own unlink.
C19_OwnFileOwnChild ==
    \A i \in Invocations :
        /\ inv[i].created <= 1
        /\ inv[i].children <= 1
        /\ HoldsFile(i) => inv[i].file \in disk
        /\ \A j \in Invocations \ {i} :
               (HoldsFile(i) /\ HoldsFile(j)) => inv[i].file # inv[j].file

C19_Witness ==
    /\ inv[1].pc = "done" /\ inv[1].outcome = "timeout"
    /\ inv[1].created = 1 /\ inv[1].children = 1
    /\ inv[1].file \notin disk
    /\ inv[2].pc = "wait" /\ inv[2].file \in disk

\* execute_code has returned a result and its child is gone
Terminal == pc = "done" /\ ret.kind = "return" /\ child \in {"exited", "killed"}

\* C20: every run that started a child eventually returns one result, also
\* when the child never exits on its own: with the deadline timer fair, a
\* started run reaches a terminal outcome (success, failure or timed out), and
\* stays there with that result.
C20_StartedRunTerminates ==
    /\ (child = "running") ~> Terminal
    /\ [](Terminal => []Terminal)
    /\ [][Terminal => ret' = ret]_vars

C20_Witness ==
    /\ Terminal
    /\ child = "killed"
    /\ ret = ExecReturn(FALSE, JNull, TimedOutMessage)

(***************************************************************************)
(* The execute-code endpoint and the database.                             *)
(***************************************************************************)
\* the last call was the execute-code endpoint and it stored a graph
Persisted == reply.op = "execute_code" /\ reply.ret = "graph"

StoredNodes(g) == {n \in Node : n.graph_id = g}
StoredEdges(g) == {e \in Edge : e.graph_id = g}

\* the stored edge of the graph of the last call for an edge of its schema
\* given by indices into the schema's nodes
StoredFor(draft_edge) ==
    {e \in StoredEdges(reply.graph) :
        /\ e.source_id = reply.created[draft_edge.source_id + 1]
        /\ e.target_id = reply.created[draft_edge.target_id + 1]}

\* C21: when the execute-code endpoint has stored a draft, the stored graph
\* has the caller's name, one stored node for each node of the draft and one
\* stored edge for each edge of the draft, and each stored edge joins the rows
\* created for the nodes at the draft edge's source and target indices.
C21_DraftPersisted ==
    Persisted =>
        /\ \E g \in Graph : g.id = reply.graph /\ g.name = reply.data.name
                                /\ g.name \in GraphNames
        /\ Cardinality(StoredNodes(reply.graph)) = Len(reply.data.nodes)
        /\ Cardinality(StoredEdges(reply.graph)) = Len(reply.data.edges)
        /\ \A j \in DOMAIN reply.data.edges : StoredFor(reply.data.edges[j]) # {}

(***************************************************************************)
(* Self-loops and repeated edges.                                          *)
(***************************************************************************)
\* an edge element of a shape the edge loop skips
SkippedShape(e) == e[1] # "dict" /\ (e[1] = "list" => Len(e[2]) < 2)

\* source and target of the elements of es that have integer indices in range
\* of n nodes, in the order of es, each as often as it occurs
RECURSIVE InRangeEnds(_, _)
InRangeEnds(es, n) ==
    IF es = <<>> THEN <<>>
    ELSE (IF InRangeEdge(Head(es), n)
          THEN << <<EdgeSource(Head(es)), EdgeTarget(Head(es))>> >> ELSE <<>>)
         \o InRangeEnds(Tail(es), n)

EndsOf(built) == [j \in DOMAIN built |-> <<built[j].source_id, built[j].target_id>>]

\* C22: normalization neither deduplicates edges nor rejects self-loops: over
\* edge elements that have integer indices or a skipped shape, the returned
\* edge list is the input list in input order without the skipped and the
\* out-of-range elements, so in-range self-loops and repeated edges appear as
\* often as in the input.
C22_SelfLoopsAndRepeatsKept ==
    ( /\ Finished /\ ret.success /\ result.kind = "return" /\ result.success
      /\ InputNodes[1] = "list" /\ InputEdges[1] = "list"
      /\ \A i \in DOMAIN InputEdges[2] :
             IndexedEdge(InputEdges[2][i]) \/ SkippedShape(InputEdges[2][i]) ) =>
        EndsOf(result.graph.edges) = InRangeEnds(InputEdges[2], Len(InputNodes[2]))

C22_Witness ==
    /\ Finished /\ result.success
    /\ ret.graph_data = GraphData(PlainNodes(1), JList(<< Pair(0, 0), Pair(0, 0) >>))
    /\ EndsOf(result.graph.edges) = << <<0, 0>>, <<0, 0>> >>

(***************************************************************************)
(* Referential integrity of the stored graphs.                             *)
(***************************************************************************)
\* the last call was delete_node(n) and it returned True
Deleted(n) == reply.op = "delete_node" /\ reply.ret = "True" /\ reply.arg = n

\* the node rows with key id that belong to graph g
NodeIn(id, g) == {n \in Node : n.id = id /\ n.graph_id = g}

CreatedWithEmptyGraph ==
    reply.op = "create_project" =>
        /\ \E p \in Project : p.id = reply.created[1] /\ p.graph_id = reply.graph
        /\ ById(Graph, reply.graph) # {}
        /\ \A p \in Project : p.graph_id = reply.graph => p.id = reply.created[1]
        /\ StoredNodes(reply.graph) = {} /\ StoredEdges(reply.graph) = {}

\* the last call was delete_project, it returned True, and neither the project
\* nor the graph it had is stored
DeletedWithGraph ==
    (reply.op = "delete_project" /\ reply.ret = "True") =>
        /\ ById(Project, reply.arg) = {}
        /\ reply.graph # NULL =>
               ById(Graph, reply.graph) = {} /\ StoredNodes(reply.graph) = {}

\* C27 as stated: after any sequence of create_project, delete_project and
\* delete_graph the graph_id of every stored project is the key of a stored
\* graph; create_project stores the project with a fresh empty graph, and
\* delete_project removes the project and its graph.
C27_ProjectsHaveGraphs ==
    /\ \A p \in Project : ById(Graph, p.graph_id) # {}
    /\ CreatedWithEmptyGraph
    /\ DeletedWithGraph

\* C27 as amended: the graph_id of every stored project is null or the key of
\* a stored graph (delete_graph leaves the project of the graph with a null
\* graph_id); create_project stores the project with a fresh empty graph, and
\* delete_project removes the project and its graph.
C27_ProjectsHaveGraphsOrNone ==
    /\ \A p \in Project : p.graph_id = NULL \/ ById(Graph, p.graph_id) # {}
    /\ CreatedWithEmptyGraph
    /\ DeletedWithGraph

C27_Witness ==
    /\ reply.op = "delete_graph" /\ reply.ret = "True"
    /\ \E p \in Project : p.graph_id = NULL
    /\ \E p \in Project : ById(Graph, p.graph_id) # {}

(***************************************************************************)
(* Map edges that leave out an index.                                      *)
(***************************************************************************)
\* a map edge whose indices, where given, are integers
MapEdge(e) ==
    /\ e[1] = "dict"
    /\ HasKey(e, "source_id") => DictGet(e, "source_id", JNull)[1] = "int"
    /\ HasKey(e, "target_id") => DictGet(e, "target_id", JNull)[1] = "int"
    /\ HasKey(e, "weight") => IsNumberJ(DictGet(e, "weight", JNull))

\* the index of map edge e under key k, 0 when the map has no such key
IndexOrZero(e, k) == IF HasKey(e, k) THEN DictGet(e, k, JNull)[2] ELSE 0

\* source and target of the map edges of es, a missing index taken as 0,
\* without those out of range of n nodes
RECURSIVE MapEnds(_, _)
MapEnds(es, n) ==
    IF es = <<>> THEN <<>>
    ELSE (IF /\ IndexOrZero(Head(es), "source_id") \in 0..(n - 1)
             /\ IndexOrZero(Head(es), "target_id") \in 0..(n - 1)
          THEN << <<IndexOrZero(Head(es), "source_id"), IndexOrZero(Head(es), "target_id")>> >>
          ELSE <<>>)
         \o MapEnds(Tail(es), n)

\* C28: a map edge that leaves out source_id or target_id is coerced with the
\* missing index taken as 0 and is not dropped for that: over lists of map
\* edges the returned edges are the in-range ones of the maps so completed,
\* the map {} is a self-loop on node 0 when there is a node, and is dropped by
\* the range check when there is none.
C28_MissingIndexIsZero ==
    ( /\ Finished /\ ret.success
      /\ InputNodes[1] = "list" /\ InputEdges[1] = "list"
      /\ \A i \in DOMAIN InputEdges[2] : MapEdge(InputEdges[2][i]) ) =>
        /\ result.kind = "return" /\ result.success
        /\ EndsOf(result.graph.edges) = MapEnds(InputEdges[2], Len(InputNodes[2]))
        /\ InputEdges[2] = << JDict(<<>>) >> =>
               EndsOf(result.graph.edges) =
                   IF Len(InputNodes[2]) > 0 THEN << <<0, 0>> >> ELSE <<>>

C28_Witness ==
    /\ Finished /\ result.success
    /\ ret.graph_data = GraphData(PlainNodes(1), JList(<< JDict(<<>>) >>))
    /\ EndsOf(result.graph.edges) = << <<0, 0>> >>

(***************************************************************************)
(* The WebSocket channel.                                                  *)
(***************************************************************************)
\* the message of the broadcast of endpoint c as connection x gets it
Update(c, x) == [from |-> c, type |-> frame[c].type, to |-> x]

\* the broadcast of endpoint c has returned and connection x, registered from
\* its start to its end, was sent the message
Served(c, x) ==
    frame[c].outcome = "returned" => Update(c, x) \in delivered \/ x \in frame[c].disconnected

\* C24: a node_moved, node_updated, edge_updated or graph_updated message a
\* client sends is delivered to every other connection registered for the
\* same graph_id, to no connection of another graph_id and not to its sender.
C24_UpdateGoesToTheOthers ==
    \A c \in Connections :
        /\ \A d \in delivered :
              d.from = c =>
                  /\ d.type \in BroadcastTypes
                  /\ d.to # c
                  /\ endpoint[d.to].graph_id = endpoint[c].graph_id
        /\ \A x \in frame[c].stayed \ {c} : Served(c, x)

\* C25: a broadcast_to_graph suspended at a send while another client of the
\* same graph_id connects or disconnects does not end in a fault, sends the
\* message to every connection registered from its start to its end, and its
\* endpoint does not drop the connection of the sender.
C25_BroadcastOutlivesChanges ==
    \A c \in Connections :
        frame[c].touched =>
            /\ frame[c].outcome # "RuntimeError"
            /\ endpoint[c].cause # "Exception"
            /\ \A x \in frame[c].stayed \ {c} : Served(c, x)

\* no broadcast_to_graph is under way
Quiet == \A c \in Connections : frame[c].outcome # "running"

\* C26: once the connects, disconnects and broadcasts made have ended,
\* active_connections maps no graph_id to the empty set, a connection that
\* was disconnected or whose send raised in a broadcast is not registered
\* under that graph_id, and a disconnect of a connection that is not
\* registered leaves active_connections as it is.
C26_RegistryKeepsNoneGone ==
    /\ \A g \in DOMAIN active_connections : active_connections[g] # {}
    /\ Quiet =>
          \A c \in Connections :
              /\ endpoint[c].pc = "closed" =>
                    c \notin Registered(active_connections, endpoint[c].graph_id)
              /\ \A x \in frame[c].disconnected :
                    x \notin Registered(active_connections, endpoint[c].graph_id)
    /\ \A x \in Connections, g \in GraphIds :
          x \notin Registered(active_connections, g) =>
              Discard(active_connections, {x}, g) = active_connections

====
